---- MODULE Spec2Model ----
(***************************************************************************)
(* A model of log4 (src/log4.go): the ChannelLogger with its bounded       *)
(* channel, the run goroutine, the handleErrors goroutine, the per-package *)
(* loggers with size-based rotation, the entry pool and Close.             *)
(*                                                                         *)
(* Strings that the code inspects character by character (package names,   *)
(* level strings) are sequences of one-character strings; messages and     *)
(* formatted lines are TLA+ strings, so that Len gives their byte length.  *)
(* The clock is frozen: every time.Now() formats to the string Clock.      *)
(***************************************************************************)
EXTENDS Integers, Sequences, FiniteSets, TLC

(***************************************************************************)
(* Bounds of the model.                                                    *)
(***************************************************************************)
\* ingestion calls started under Spec and SpecFair
MaxCalls == 2
\* ingestion calls started under SpecLevel
MaxLevelCalls == 2
\* ingestion calls started under SpecOrder
MaxOrderCalls == 3
\* Config.MaxFileSize of the small engines: two lines fit, a third rotates
MaxFileSize == 60
\* Config.MaxFiles of the modelled engine
MaxFiles == 2
\* Config.BufferSize of the small engines
QueueCap == 1
\* Config.BufferSize under SpecOrder
OrderQueueCap == 2
\* ingestion calls under SpecRotate
MaxRotateCalls == 4
\* ingestion calls under SpecCancel
MaxCancelCalls == 3
\* Config.BufferSize under SpecBig: above the small-buffer threshold
BigQueueCap == 11
\* ingestion calls under SpecBig
MaxBigCalls == 12
\* Config.MaxFileSize under SpecRotate: less than one line
RotateFileSize == 30
\* ingestion calls under SpecFault
MaxFaultCalls == 3
\* ingestion calls under SpecConfig
MaxConfigCalls == 2
\* ingestion calls under SpecRestart
MaxRestartCalls == 3
\* lines an earlier run left in a base file under SpecRestart
MaxEarlierLines == 2
\* ingestion calls under SpecAlias
MaxAliasCalls == 3
\* ingestion calls under SpecLock
MaxLockCalls == 3
\* ingestion calls under SpecParse
MaxParseCalls == 2
\* ingestion calls under SpecNames
MaxNameCalls == 2
\* length of the short package names under SpecNames
MaxNameLen == 2

(***************************************************************************)
(* Program constants.                                                      *)
(***************************************************************************)
DEBUG == 0
INFO == 1
ERROR == 2
MaxPackageNameLen == 100
ErrorChanSize == 10
SmallBuffer == 10
\* 0644 and 0755
DefaultFileMode == 420
DefaultDirMode == 493
\* 100 * 1024 * 1024
DefaultMaxFileSize == 104857600
DefaultMaxFiles == 5

Levels == {DEBUG, INFO, ERROR}

Producers == {"p1", "p2"}
Closers == {"c1", "c2"}
Threads == Producers \cup Closers

\* the formatted reading of the frozen clock (layout "2006-01-02 15:04:05")
Clock == "2006-01-02 15:04:05"

(***************************************************************************)
(* Characters.                                                             *)
(***************************************************************************)
LowerCase == <<"a", "b", "c", "d", "e", "f", "g", "h", "i", "j", "k", "l", "m",
               "n", "o", "p", "q", "r", "s", "t", "u", "v", "w", "x", "y", "z">>
UpperCase == <<"A", "B", "C", "D", "E", "F", "G", "H", "I", "J", "K", "L", "M",
               "N", "O", "P", "Q", "R", "S", "T", "U", "V", "W", "X", "Y", "Z">>
Digits == {"0", "1", "2", "3", "4", "5", "6", "7", "8", "9"}

Range(s) == {s[i] : i \in DOMAIN s}

\* strings.ToUpper, one character
ToUpperChar(c) ==
    IF c \in Range(LowerCase)
    THEN UpperCase[CHOOSE i \in DOMAIN LowerCase : LowerCase[i] = c]
    ELSE c

ToUpper(s) == [i \in DOMAIN s |-> ToUpperChar(s[i])]

\* the complement of packageNameRegex `[^a-zA-Z0-9_-]`
AllowedChar(c) ==
    c \in Range(LowerCase) \cup Range(UpperCase) \cup Digits \cup {"_", "-"}

\* a sanitizePackageName that does not limit the length
sanitizePackageNameUnlimited(pkg) ==
    IF pkg = <<>>
    THEN <<"d", "e", "f", "a", "u", "l", "t">>
    ELSE [i \in DOMAIN pkg |-> IF AllowedChar(pkg[i]) THEN pkg[i] ELSE "_"]

sanitizePackageName(pkg) ==
    IF pkg = <<>>
    THEN <<"d", "e", "f", "a", "u", "l", "t">>
    ELSE LET sanitized == [i \in DOMAIN pkg |->
                              IF AllowedChar(pkg[i]) THEN pkg[i] ELSE "_"]
         IN  IF Len(sanitized) > MaxPackageNameLen
             THEN SubSeq(sanitized, 1, MaxPackageNameLen)
             ELSE sanitized

LevelString(l) ==
    CASE l = DEBUG -> "DEBUG"
      [] l = INFO -> "INFO"
      [] l = ERROR -> "ERROR"
      [] OTHER -> "UNKNOWN"

\* a ParseLogLevel that compares the string as it is
ParseLogLevelExact(level) ==
    CASE level = <<"D", "E", "B", "U", "G">> -> DEBUG
      [] level = <<"I", "N", "F", "O">> -> INFO
      [] level = <<"E", "R", "R", "O", "R">> -> ERROR
      [] OTHER -> INFO

ParseLogLevel(level) ==
    LET up == ToUpper(level)
    IN  CASE up = <<"D", "E", "B", "U", "G">> -> DEBUG
          [] up = <<"I", "N", "F", "O">> -> INFO
          [] up = <<"E", "R", "R", "O", "R">> -> ERROR
          [] OTHER -> INFO

(***************************************************************************)
(* Go maps: functions whose domain is the set of keys present.             *)
(***************************************************************************)
EmptyMap == [k \in {} |-> 0]
Put(m, k, v) == [x \in DOMAIN m \cup {k} |-> IF x = k THEN v ELSE m[x]]
Del(m, k) == [x \in DOMAIN m \ {k} |-> m[x]]

(***************************************************************************)
(* Log entries and the pool.                                               *)
(***************************************************************************)
\* the entry logEntryPool.New builds, which is also what putLogEntry resets to
ZeroEntry ==
    [Package |-> <<>>, Level |-> DEBUG, Message |-> "", Fields |-> EmptyMap,
     Context |-> FALSE, Timestamp |-> ""]

\* getLogEntry: the entry obtained from pool pl
getLogEntry(pl) == IF pl = <<>> THEN ZeroEntry ELSE Head(pl)
\* the pool after getLogEntry
PoolAfterGet(pl) == IF pl = <<>> THEN pl ELSE Tail(pl)

\* a putLogEntry that leaves the entries of the Fields map in place
putLogEntryKeepFields(pl, entry) ==
    Append(pl, [entry EXCEPT !.Package = <<>>, !.Level = DEBUG, !.Message = "",
                             !.Context = FALSE, !.Timestamp = ""])

\* putLogEntry: reset the entry and put it back
putLogEntry(pl, entry) ==
    Append(pl, [entry EXCEPT !.Package = <<>>, !.Level = DEBUG, !.Message = "",
                             !.Context = FALSE, !.Timestamp = "",
                             !.Fields = EmptyMap])

(***************************************************************************)
(* formatLogMessage.  Go ranges over the Fields map in no defined order:   *)
(* FormatLogMessages is the set of lines the call may return.              *)
(***************************************************************************)
RECURSIVE Orderings(_)
Orderings(S) ==
    IF S = {} THEN {<<>>}
    ELSE UNION {{<<k>> \o rest : rest \in Orderings(S \ {k})} : k \in S}

RECURSIVE JoinFields(_, _)
JoinFields(fields, keys) ==
    IF keys = <<>> THEN ""
    ELSE Head(keys) \o "=" \o fields[Head(keys)]
         \o (IF Len(keys) > 1 THEN ", " ELSE "")
         \o JoinFields(fields, Tail(keys))

FormatHead(entry) ==
    "[" \o entry.Timestamp \o "] " \o LevelString(entry.Level) \o ": " \o entry.Message

FormatLogMessages(entry) ==
    IF DOMAIN entry.Fields = {}
    THEN {FormatHead(entry)}
    ELSE {FormatHead(entry) \o " | " \o JoinFields(entry.Fields, keys) :
              keys \in Orderings(DOMAIN entry.Fields)}

(***************************************************************************)
(* The file system: fs maps the paths that exist to inode numbers, inodes  *)
(* holds each inode's lines.  An open handle names an inode, so it follows *)
(* the file through a rename.                                              *)
(***************************************************************************)
RECURSIVE Str(_)
\* the string spelled by a sequence of characters, built by halves
Str(chars) ==
    IF Len(chars) = 0 THEN ""
    ELSE IF Len(chars) = 1 THEN chars[1]
    ELSE LET mid == Len(chars) \div 2
         IN  Str(SubSeq(chars, 1, mid)) \o Str(SubSeq(chars, mid + 1, Len(chars)))

\* one file name for every package
BaseNameShared(logDir, pkg) ==
    IF logDir # "" THEN logDir \o "/" \o "app.log" ELSE "app.log"

\* fmt.Sprintf("%s.log", sanitizePackageName(pkg)), joined to LogDir
BaseName(logDir, pkg) ==
    LET name == Str(sanitizePackageName(pkg)) \o ".log"
    IN  IF logDir # "" THEN logDir \o "/" \o name ELSE name

\* fmt.Sprintf("%s.%d", baseName, i)
BackupName(baseName, i) == baseName \o "." \o ToString(i)

RECURSIVE ByteSize(_)
\* stat.Size(): every line is followed by a newline
ByteSize(lines) ==
    IF lines = <<>> THEN 0 ELSE Len(Head(lines)) + 1 + ByteSize(Tail(lines))

\* os.Rename: fails, changing nothing, when the old path does not exist
Rename(fsys, oldName, newName) ==
    IF oldName \in DOMAIN fsys
    THEN Put(Del(fsys, oldName), newName, fsys[oldName])
    ELSE fsys

\* os.Remove
Remove(fsys, name) == Del(fsys, name)

shouldRotate(sizes, pkg, maxFileSize) ==
    pkg \in DOMAIN sizes /\ sizes[pkg] >= maxFileSize

\* a rotation loop that renames nothing
RotateBackupsNoShift(fsys, baseName, i, maxFiles) == fsys

RECURSIVE RotateBackups(_, _, _, _)
\* the loop of rotateFile, from index i down to 1
RotateBackups(fsys, baseName, i, maxFiles) ==
    IF i <= 0 THEN fsys
    ELSE LET removed == IF i = maxFiles - 1
                        THEN Remove(fsys, BackupName(baseName, i + 1))
                        ELSE fsys
             renamed == Rename(removed, BackupName(baseName, i),
                               BackupName(baseName, i + 1))
         IN  RotateBackups(renamed, baseName, i - 1, maxFiles)

\* rotateFile on the router state rs = [loggers, files, fileSizes, fs, inodes];
\* writable tells whether os.Remove and os.Rename succeed on paths that exist.
\* Their errors are discarded and the function returns nil.
rotateFile(rs, pkg, cfg, writable) ==
    LET baseName == BaseName(cfg.LogDir, pkg)
        hadFile == pkg \in DOMAIN rs.files
        rotated == IF writable
                   THEN RotateBackups(rs.fs, baseName, cfg.MaxFiles - 1, cfg.MaxFiles)
                   ELSE rs.fs
        moved == IF writable /\ baseName \in DOMAIN rotated
                 THEN Rename(rotated, baseName, BackupName(baseName, 1))
                 ELSE rotated
    IN  [rs EXCEPT !.files = IF hadFile THEN Del(rs.files, pkg) ELSE rs.files,
                   !.loggers = IF hadFile THEN Del(rs.loggers, pkg) ELSE rs.loggers,
                   !.fs = moved,
                   !.fileSizes = Put(rs.fileSizes, pkg, 0)]

\* the error values the engine reports
ErrOpenLogFile(fileName) == <<"failed to open log file", fileName>>
ErrCreateLogDir(logDir) == <<"failed to create log directory", logDir>>
ErrCloseLogFile(pkg) == <<"failed to close log file for package", Str(pkg)>>
ErrChannelFull(message) == <<"log channel full, dropping message", message>>

\* os.OpenFile(fileName, O_CREATE|O_WRONLY|O_APPEND): the state after the
\* open, files[pkg] set to the new handle and fileSizes[pkg] to the size
OpenFile(rs, pkg, fileName) ==
    LET exists == fileName \in DOMAIN rs.fs
        ino == IF exists THEN rs.fs[fileName] ELSE Len(rs.inodes) + 1
        nodes == IF exists THEN rs.inodes ELSE Append(rs.inodes, <<>>)
    IN  [rs EXCEPT !.fs = Put(rs.fs, fileName, ino),
                   !.inodes = nodes,
                   !.files = Put(rs.files, pkg, [ino |-> ino, open |-> TRUE]),
                   !.fileSizes = Put(rs.fileSizes, pkg, ByteSize(nodes[ino]))]

\* a getLogger that keeps the failure of os.OpenFile to itself
getLoggerUnreported(rs, pkg, cfg, isClosed, dirExists, writable) ==
    IF isClosed
    THEN [rs |-> rs, logger |-> 0, errs |-> <<>>]
    ELSE IF pkg \in DOMAIN rs.loggers /\ ~shouldRotate(rs.fileSizes, pkg, cfg.MaxFileSize)
    THEN [rs |-> rs, logger |-> rs.loggers[pkg], errs |-> <<>>]
    ELSE LET r1 == IF shouldRotate(rs.fileSizes, pkg, cfg.MaxFileSize)
                   THEN rotateFile(rs, pkg, cfg, writable)
                   ELSE rs
             fileName == BaseName(cfg.LogDir, pkg)
             canOpen == dirExists /\ (fileName \in DOMAIN r1.fs \/ writable)
             r2 == IF canOpen THEN OpenFile(r1, pkg, fileName) ELSE r1
             logger == IF canOpen THEN r2.files[pkg].ino ELSE 0
         IN  [rs |-> [r2 EXCEPT !.loggers = Put(r2.loggers, pkg, logger)],
              logger |-> logger,
              errs |-> <<>>]

\* os.OpenFile with O_CREATE succeeds: the directory exists, and the file
\* exists or can be created in it
CanOpen(fsys, fileName, dirExists, writable) ==
    dirExists /\ (fileName \in DOMAIN fsys \/ writable)

\* getLogger with the closed flag read as isClosed: the router state after
\* the call, the logger returned (the inode its file writer appends to, 0
\* for a logger that writes to standard output only) and the errors passed
\* to handleError.  dirExists and writable are the state of LogDir.
getLogger(rs, pkg, cfg, isClosed, dirExists, writable) ==
    IF isClosed
    THEN [rs |-> rs, logger |-> 0, errs |-> <<>>]
    ELSE IF pkg \in DOMAIN rs.loggers /\ ~shouldRotate(rs.fileSizes, pkg, cfg.MaxFileSize)
    THEN [rs |-> rs, logger |-> rs.loggers[pkg], errs |-> <<>>]
    ELSE LET r1 == IF shouldRotate(rs.fileSizes, pkg, cfg.MaxFileSize)
                   THEN rotateFile(rs, pkg, cfg, writable)
                   ELSE rs
             fileName == BaseName(cfg.LogDir, pkg)
             canOpen == CanOpen(r1.fs, fileName, dirExists, writable)
             r2 == IF canOpen THEN OpenFile(r1, pkg, fileName) ELSE r1
             logger == IF canOpen THEN r2.files[pkg].ino ELSE 0
         IN  [rs |-> [r2 EXCEPT !.loggers = Put(r2.loggers, pkg, logger)],
              logger |-> logger,
              errs |-> IF canOpen THEN <<>> ELSE <<ErrOpenLogFile(fileName)>>]

\* logger.Println(line): standard output first, then the file
Println(rs, out, logger, line) ==
    [rs |-> IF logger # 0
            THEN [rs EXCEPT !.inodes[logger] = Append(@, line)]
            ELSE rs,
     stdout |-> Append(out, line)]

(***************************************************************************)
(* Channels.                                                               *)
(***************************************************************************)
\* a buffer that puts the new value first
ChanSendFront(buf, v) == <<v>> \o buf
\* a send that found room: the buffer after it
ChanSend(buf, v) == Append(buf, v)
\* the value a receive takes
ChanRecv(buf) == Head(buf)

\* a handleError that always writes to standard error
handleErrorStderrOnly(es, err, hasHandler, chClosed) ==
    [es EXCEPT !.stderr = Append(@, err)]

\* handleError on the error side es = [errorChan, stderr, panic]; chClosed
\* tells whether errorChan has been closed (a send on it then panics)
handleError(es, err, hasHandler, chClosed) ==
    IF hasHandler
    THEN IF chClosed
         THEN [es EXCEPT !.panic = "send on closed channel"]
         ELSE IF Len(es.errorChan) < ErrorChanSize
         THEN [es EXCEPT !.errorChan = ChanSend(@, err)]
         ELSE [es EXCEPT !.stderr = Append(@, err)]
    ELSE [es EXCEPT !.stderr = Append(@, err)]

RECURSIVE handleErrorAll(_, _, _, _)
handleErrorAll(es, errs, hasHandler, chClosed) ==
    IF errs = <<>> THEN es
    ELSE handleErrorAll(handleError(es, Head(errs), hasHandler, chClosed),
                        Tail(errs), hasHandler, chClosed)

(***************************************************************************)
(* The state.                                                              *)
(***************************************************************************)
VARIABLES
    config,          \* the validated Config; ErrorHandler is TRUE when one is set
    dirOK,           \* environment: LogDir can be created and written to
    dirWritable,     \* environment: the entries of LogDir can be created,
                     \* renamed and removed
    minLevel,        \* cl.minLevel
    closed,          \* cl.closed
    mu,              \* cl.mu: the goroutine that holds it, "" when free
    done,            \* TRUE once the done channel is closed
    logChan,         \* the entries buffered in cl.logChan
    logChanClosed,   \* TRUE once close(cl.logChan) ran
    errorChan,       \* the errors buffered in cl.errorChan
    errorChanClosed, \* TRUE once close(cl.errorChan) ran
    wg,              \* the WaitGroup counter
    loggers,         \* cl.loggers: package -> inode its logger writes (0: none)
    files,           \* cl.files: package -> [ino, open]
    fileSizes,       \* cl.fileSizes
    fs,              \* the paths on disk -> inode
    inodes,          \* inode -> lines
    stdout,          \* the lines written to standard output
    stderr,          \* the errors written to standard error
    handled,         \* the errors passed to config.ErrorHandler
    pool,            \* logEntryPool
    ctxDone,         \* the callers' context has been cancelled
    pc,              \* where each calling goroutine is
    cur,             \* the entry each calling goroutine holds
    ncalls,          \* ingestion calls each producer has started
    runPc,           \* where the run goroutine is
    runEntry,        \* the entry the run goroutine holds
    errPc,           \* where the handleErrors goroutine is ("off": not started)
    panic,           \* "" while the process runs, else the panic that ended it
    hConfig,         \* history: the Config the constructor was called with
    hLastSet,        \* history: the argument of the last SetMinLevel
    hLowestMin,      \* history: the lowest value minLevel has held
    hEnqueued,       \* history: the entries sent on logChan, in order
    hCloseReturned,  \* history: some call of Close has returned
    hWinners,        \* history: the goroutines whose Close won the CAS
    hAfter,          \* history: the last call of each producer started after
                     \* a call of Close had returned
    hSkipped,        \* history: the messages of the LogWithContext calls that
                     \* found their context done
    hDropped         \* history: the messages of the entries run released
                     \* because their context was done, each with the
                     \* place in run ("select" or "drain") where it was

envVars == <<dirOK, dirWritable>>
chanVars == <<logChan, logChanClosed, errorChan, errorChanClosed, done, wg>>
routerVars == <<loggers, files, fileSizes, fs, inodes>>
outVars == <<stdout, stderr, handled>>
callVars == <<pc, cur, ncalls>>
runVars == <<runPc, runEntry>>
histVars == <<hConfig, hLastSet, hLowestMin, hEnqueued, hCloseReturned, hWinners,
              hAfter, hSkipped, hDropped>>
vars == <<config, envVars, minLevel, closed, mu, chanVars, routerVars, outVars, pool,
          ctxDone, callVars, runVars, errPc, panic, histVars>>

RS == [loggers |-> loggers, files |-> files, fileSizes |-> fileSizes,
       fs |-> fs, inodes |-> inodes]
ES == [errorChan |-> errorChan, stderr |-> stderr, panic |-> panic]

SetRouter(rs) ==
    /\ loggers' = rs.loggers
    /\ files' = rs.files
    /\ fileSizes' = rs.fileSizes
    /\ fs' = rs.fs
    /\ inodes' = rs.inodes

SetErrors(es) ==
    /\ errorChan' = es.errorChan
    /\ stderr' = es.stderr
    /\ panic' = es.panic

Running == panic = ""

(***************************************************************************)
(* NewChannelLoggerWithConfig: the state once the constructor returned.    *)
(***************************************************************************)
DefaultConfig ==
    [BufferSize |-> 100, LogDir |-> "", TimestampFormat |-> "2006-01-02 15:04:05",
     MinLevel |-> DEBUG, FileMode |-> DefaultFileMode, DirMode |-> DefaultDirMode,
     MaxFileSize |-> DefaultMaxFileSize, MaxFiles |-> DefaultMaxFiles,
     ErrorHandler |-> FALSE]

\* a Validate that checks the queue capacity only
ValidateBufferOnly(cfg) == cfg.BufferSize > 0

\* Config.Validate returns nil: TRUE when the constructor does not panic
Validate(cfg) == cfg.BufferSize > 0 /\ cfg.TimestampFormat # ""

\* the Config that Validate leaves behind: an error returns before any
\* field is touched, otherwise the unset fields take their defaults
Validated(cfg) ==
    IF ~Validate(cfg)
    THEN cfg
    ELSE [cfg EXCEPT
             !.MaxFileSize = IF @ <= 0 THEN DefaultMaxFileSize ELSE @,
             !.MaxFiles = IF @ <= 0 THEN DefaultMaxFiles ELSE @,
             !.FileMode = IF @ = 0 THEN DefaultFileMode ELSE @,
             !.DirMode = IF @ = 0 THEN DefaultDirMode ELSE @]

ErrInvalidConfig == "Invalid logger configuration"

\* the constructor panicked in Validate: no channel was made and no
\* goroutine was started
ConstructionPanics(cfg) ==
    /\ config = cfg
    /\ hConfig = cfg
    /\ dirOK = TRUE
    /\ dirWritable = TRUE
    /\ minLevel = DEBUG
    /\ closed = FALSE
    /\ mu = ""
    /\ done = FALSE
    /\ logChan = <<>>
    /\ logChanClosed = FALSE
    /\ errorChan = <<>>
    /\ errorChanClosed = FALSE
    /\ wg = 0
    /\ loggers = EmptyMap
    /\ files = EmptyMap
    /\ fileSizes = EmptyMap
    /\ fs = EmptyMap
    /\ inodes = <<>>
    /\ stdout = <<>>
    /\ stderr = <<>>
    /\ handled = <<>>
    /\ pool = <<>>
    /\ ctxDone = FALSE
    /\ pc = [t \in Threads |-> "idle"]
    /\ cur = [t \in Threads |-> ZeroEntry]
    /\ ncalls = [t \in Threads |-> 0]
    /\ runPc = "off"
    /\ runEntry = ZeroEntry
    /\ errPc = "off"
    /\ panic = ErrInvalidConfig
    /\ hLastSet = DEBUG
    /\ hLowestMin = DEBUG
    /\ hEnqueued = <<>>
    /\ hCloseReturned = FALSE
    /\ hWinners = {}
    /\ hAfter = [t \in Threads |-> FALSE]
    /\ hSkipped = {}
    /\ hDropped = {}

\* the constructor returned, LogDir holding the files fsys with the
\* contents nodes
ConstructedOn(input, canMkdir, fsys, nodes) ==
    LET cfg == Validated(input)
        es == IF cfg.LogDir # "" /\ ~canMkdir
              THEN handleError([errorChan |-> <<>>, stderr |-> <<>>, panic |-> ""],
                               ErrCreateLogDir(cfg.LogDir), cfg.ErrorHandler, FALSE)
              ELSE [errorChan |-> <<>>, stderr |-> <<>>, panic |-> ""]
    IN  /\ Validate(input)
        /\ config = cfg
        /\ hConfig = input
        /\ dirOK = canMkdir
        /\ dirWritable = TRUE
        /\ minLevel = cfg.MinLevel
        /\ closed = FALSE
        /\ mu = ""
        /\ done = FALSE
        /\ logChan = <<>>
        /\ logChanClosed = FALSE
        /\ errorChan = es.errorChan
        /\ errorChanClosed = FALSE
        /\ wg = IF cfg.ErrorHandler THEN 2 ELSE 1
        /\ loggers = EmptyMap
        /\ files = EmptyMap
        /\ fileSizes = EmptyMap
        /\ fs = fsys
        /\ inodes = nodes
        /\ stdout = <<>>
        /\ stderr = es.stderr
        /\ handled = <<>>
        /\ pool = <<>>
        /\ ctxDone = FALSE
        /\ pc = [t \in Threads |-> "idle"]
        /\ cur = [t \in Threads |-> ZeroEntry]
        /\ ncalls = [t \in Threads |-> 0]
        /\ runPc = "select"
        /\ runEntry = ZeroEntry
        /\ errPc = IF cfg.ErrorHandler THEN "select" ELSE "off"
        /\ panic = ""
        /\ hLastSet = cfg.MinLevel
        /\ hLowestMin = cfg.MinLevel
        /\ hEnqueued = <<>>
        /\ hCloseReturned = FALSE
        /\ hWinners = {}
        /\ hAfter = [t \in Threads |-> FALSE]
        /\ hSkipped = {}
        /\ hDropped = {}

\* the constructor returned, LogDir new or empty
Constructed(input, canMkdir) == ConstructedOn(input, canMkdir, EmptyMap, <<>>)

NewChannelLoggerWithConfig(cfg, canMkdir) ==
    IF Validate(cfg) THEN Constructed(cfg, canMkdir) ELSE ConstructionPanics(cfg)

(***************************************************************************)
(* The ingestion calls.  A call takes an entry from the pool, fills it and *)
(* enters logEntry; the steps of logEntry are the points where it reads or *)
(* writes shared state: closed.Load, minLevel.Load, the send, the report.  *)
(***************************************************************************)
TotalCalls == ncalls["p1"] + ncalls["p2"]

\* the message of the k-th call of p: unique per call
MsgOf(p, k) == p \o "-" \o ToString(k)
\* the message of the next call of p
Msg(p) == MsgOf(p, ncalls[p] + 1)

\* the caller holds the filled entry and enters logEntry
EnterLogEntry(p, entry) ==
    /\ Running
    /\ pc[p] = "idle"
    /\ pool' = PoolAfterGet(pool)
    /\ cur' = [cur EXCEPT ![p] = entry]
    /\ ncalls' = [ncalls EXCEPT ![p] = @ + 1]
    /\ pc' = [pc EXCEPT ![p] = "logEntry"]
    /\ hAfter' = [hAfter EXCEPT ![p] = hCloseReturned]
    /\ UNCHANGED <<config, hConfig, mu, envVars, minLevel, closed, chanVars, routerVars, outVars,
                   ctxDone, runVars, errPc, panic, hLastSet, hLowestMin, hEnqueued,
                   hCloseReturned, hWinners, hSkipped, hDropped>>

LogLevel(p, pkg, level, message) ==
    EnterLogEntry(p, [getLogEntry(pool) EXCEPT !.Package = pkg, !.Level = level,
                                               !.Message = message,
                                               !.Timestamp = Clock])

Log(p, pkg, level, message) == LogLevel(p, pkg, ParseLogLevel(level), message)

\* a LogWithContext that does not look at ctx.Err()
LogWithContextUnchecked(p, pkg, level, message) ==
    EnterLogEntry(p, [getLogEntry(pool) EXCEPT
                          !.Package = pkg, !.Level = ParseLogLevel(level),
                          !.Message = message, !.Context = TRUE,
                          !.Timestamp = Clock])

LogWithContext(p, pkg, level, message) ==
    IF ctxDone
    THEN /\ Running
         /\ pc[p] = "idle"
         /\ ncalls' = [ncalls EXCEPT ![p] = @ + 1]
         /\ hAfter' = [hAfter EXCEPT ![p] = hCloseReturned]
         /\ hSkipped' = hSkipped \cup {message}
         /\ UNCHANGED <<config, hConfig, mu, envVars, minLevel, closed, chanVars, routerVars,
                        outVars, pool, ctxDone, pc, cur, runVars, errPc, panic,
                        hLastSet, hLowestMin, hEnqueued, hCloseReturned, hWinners,
                        hDropped>>
    ELSE EnterLogEntry(p, [getLogEntry(pool) EXCEPT
                               !.Package = pkg, !.Level = ParseLogLevel(level),
                               !.Message = message, !.Context = TRUE,
                               !.Timestamp = Clock])

LogWithFields(p, pkg, level, message, fields) ==
    LET entry == getLogEntry(pool)
        copied == [k \in DOMAIN entry.Fields \cup DOMAIN fields |->
                      IF k \in DOMAIN fields THEN fields[k] ELSE entry.Fields[k]]
    IN  EnterLogEntry(p, [entry EXCEPT !.Package = pkg, !.Level = level,
                                       !.Message = message, !.Fields = copied,
                                       !.Timestamp = Clock])

Info(p, pkg, message) == LogLevel(p, pkg, INFO, message)
Error(p, pkg, message) == LogLevel(p, pkg, ERROR, message)
Debug(p, pkg, message) == LogLevel(p, pkg, DEBUG, message)

\* the call returns, its entry released to the pool
ReturnReleased(p) ==
    /\ pool' = putLogEntry(pool, cur[p])
    /\ cur' = [cur EXCEPT ![p] = ZeroEntry]
    /\ pc' = [pc EXCEPT ![p] = "idle"]

\* a logEntry that does not look at cl.closed
LogEntryClosedUnchecked(p) ==
    /\ Running
    /\ pc[p] = "logEntry"
    /\ pc' = [pc EXCEPT ![p] = "level"]
    /\ UNCHANGED <<config, hConfig, mu, envVars, minLevel, closed, chanVars, routerVars, outVars,
                   pool, ctxDone, cur, ncalls, runVars, errPc, panic, histVars>>

\* logEntry: if cl.closed.Load() { putLogEntry(entry); return }
LogEntryClosed(p) ==
    /\ Running
    /\ pc[p] = "logEntry"
    /\ IF closed
       THEN ReturnReleased(p)
       ELSE /\ pc' = [pc EXCEPT ![p] = "level"]
            /\ UNCHANGED <<pool, cur>>
    /\ UNCHANGED <<config, hConfig, mu, envVars, minLevel, closed, chanVars, routerVars, outVars,
                   ctxDone, ncalls, runVars, errPc, panic, histVars>>

\* a logEntry without the level check
LogEntryLevelUnfiltered(p) ==
    /\ Running
    /\ pc[p] = "level"
    /\ pc' = [pc EXCEPT ![p] = "send"]
    /\ UNCHANGED <<config, hConfig, mu, envVars, minLevel, closed, chanVars, routerVars, outVars,
                   pool, ctxDone, cur, ncalls, runVars, errPc, panic, histVars>>

\* logEntry: if entry.Level < LogLevel(cl.minLevel.Load()) { put; return }
LogEntryLevel(p) ==
    /\ Running
    /\ pc[p] = "level"
    /\ IF cur[p].Level < minLevel
       THEN ReturnReleased(p)
       ELSE /\ pc' = [pc EXCEPT ![p] = "send"]
            /\ UNCHANGED <<pool, cur>>
    /\ UNCHANGED <<config, hConfig, mu, envVars, minLevel, closed, chanVars, routerVars, outVars,
                   ctxDone, ncalls, runVars, errPc, panic, histVars>>

\* the entry is in the channel and the call returns
Sent(p) ==
    /\ logChan' = ChanSend(logChan, cur[p])
    /\ hEnqueued' = Append(hEnqueued, cur[p])
    /\ cur' = [cur EXCEPT ![p] = ZeroEntry]
    /\ pc' = [pc EXCEPT ![p] = "idle"]
    /\ UNCHANGED panic

\* a send on the closed channel panics, which ends the process
SendPanics ==
    /\ panic' = "send on closed channel"
    /\ UNCHANGED <<logChan, hEnqueued, cur, pc>>

\* logEntry: the first select, a send that does not wait
LogEntrySend(p) ==
    /\ Running
    /\ pc[p] = "send"
    /\ IF logChanClosed
       THEN SendPanics
       ELSE IF Len(logChan) < config.BufferSize
       THEN Sent(p)
       ELSE /\ pc' = [pc EXCEPT ![p] = IF config.BufferSize > SmallBuffer
                                       THEN "retry" ELSE "drop"]
            /\ UNCHANGED <<logChan, hEnqueued, cur, panic>>
    /\ UNCHANGED <<config, hConfig, mu, envVars, minLevel, closed, logChanClosed, errorChan,
                   errorChanClosed, done, wg, routerVars, outVars, pool, ctxDone,
                   ncalls, runVars, errPc, hLastSet, hLowestMin, hCloseReturned,
                   hWinners, hAfter,
                   hSkipped, hDropped>>

\* logEntry: the second select, the send becoming possible within 5 ms
LogEntryRetrySend(p) ==
    /\ Running
    /\ pc[p] = "retry"
    /\ logChanClosed \/ Len(logChan) < config.BufferSize
    /\ IF logChanClosed THEN SendPanics ELSE Sent(p)
    /\ UNCHANGED <<config, hConfig, mu, envVars, minLevel, closed, logChanClosed, errorChan,
                   errorChanClosed, done, wg, routerVars, outVars, pool, ctxDone,
                   ncalls, runVars, errPc, hLastSet, hLowestMin, hCloseReturned,
                   hWinners, hAfter,
                   hSkipped, hDropped>>

\* logEntry: the second select, time.After(5 ms) firing
LogEntryTimeout(p) ==
    /\ Running
    /\ pc[p] = "retry"
    /\ pc' = [pc EXCEPT ![p] = "drop"]
    /\ UNCHANGED <<config, hConfig, mu, envVars, minLevel, closed, chanVars, routerVars, outVars,
                   pool, ctxDone, cur, ncalls, runVars, errPc, panic, histVars>>

\* logEntry: handleError("log channel full..."); putLogEntry(entry)
LogEntryDrop(p) ==
    /\ Running
    /\ pc[p] = "drop"
    /\ LET es == handleError(ES, ErrChannelFull(cur[p].Message),
                             config.ErrorHandler, errorChanClosed)
       IN  /\ SetErrors(es)
           /\ IF es.panic = ""
              THEN ReturnReleased(p)
              ELSE UNCHANGED <<pool, cur, pc>>
    /\ UNCHANGED <<config, hConfig, mu, envVars, minLevel, closed, logChan, logChanClosed,
                   errorChanClosed, done, wg, routerVars, stdout, handled, ctxDone,
                   ncalls, runVars, errPc, histVars>>

\* SetMinLevel: cl.minLevel.Store(level)
SetMinLevel(level) ==
    /\ Running
    /\ minLevel' = level
    /\ hLastSet' = level
    /\ hLowestMin' = IF level < hLowestMin THEN level ELSE hLowestMin
    /\ UNCHANGED <<config, hConfig, mu, envVars, closed, chanVars, routerVars, outVars, pool,
                   ctxDone, callVars, runVars, errPc, panic, hEnqueued,
                   hCloseReturned, hWinners, hAfter,
                   hSkipped, hDropped>>

\* GetMinLevel: cl.minLevel.Load()
GetMinLevel == minLevel

\* the owner of the callers' context cancels it
Cancel ==
    /\ Running
    /\ ~ctxDone
    /\ ctxDone' = TRUE
    /\ UNCHANGED <<config, hConfig, mu, envVars, minLevel, closed, chanVars, routerVars, outVars,
                   pool, callVars, runVars, errPc, panic, histVars>>

\* the environment: LogDir loses its write permission; the files in it can
\* still be opened and appended to
DirReadOnly ==
    /\ Running
    /\ dirWritable
    /\ dirWritable' = FALSE
    /\ UNCHANGED <<config, hConfig, mu, dirOK, minLevel, closed, chanVars, routerVars, outVars,
                   pool, ctxDone, callVars, runVars, errPc, panic, histVars>>

(***************************************************************************)
(* Close, one step per operation on shared state.                          *)
(***************************************************************************)
\* a Close that stores the flag without comparing it
CloseCASAlwaysWins(c) ==
    /\ Running
    /\ pc[c] = "idle"
    /\ closed' = TRUE
    /\ pc' = [pc EXCEPT ![c] = "signal"]
    /\ hWinners' = hWinners \cup {c}
    /\ UNCHANGED <<config, hConfig, mu, envVars, minLevel, chanVars, routerVars, outVars, pool,
                   ctxDone, cur, ncalls, runVars, errPc, panic, hLastSet,
                   hLowestMin, hEnqueued, hCloseReturned, hAfter,
                   hSkipped, hDropped>>

\* if !cl.closed.CompareAndSwap(false, true) { return }
CloseCAS(c) ==
    /\ Running
    /\ pc[c] = "idle"
    /\ IF ~closed
       THEN /\ closed' = TRUE
            /\ pc' = [pc EXCEPT ![c] = "signal"]
            /\ hWinners' = hWinners \cup {c}
            /\ UNCHANGED hCloseReturned
       ELSE /\ hCloseReturned' = TRUE
            /\ UNCHANGED <<closed, pc, hWinners>>
    /\ UNCHANGED <<config, hConfig, mu, envVars, minLevel, chanVars, routerVars, outVars, pool,
                   ctxDone, cur, ncalls, runVars, errPc, panic, hLastSet,
                   hLowestMin, hEnqueued, hAfter,
                   hSkipped, hDropped>>

\* close(cl.done)
CloseSignal(c) ==
    /\ Running
    /\ pc[c] = "signal"
    /\ IF done
       THEN /\ panic' = "close of closed channel"
            /\ UNCHANGED <<done, pc>>
       ELSE /\ done' = TRUE
            /\ pc' = [pc EXCEPT ![c] = "wait"]
            /\ UNCHANGED panic
    /\ UNCHANGED <<config, hConfig, mu, envVars, minLevel, closed, logChan, logChanClosed,
                   errorChan, errorChanClosed, wg, routerVars, outVars, pool,
                   ctxDone, cur, ncalls, runVars, errPc, histVars>>

\* cl.wg.Wait()
\* a Close that does not wait for the goroutines
CloseWaitSkipped(c) ==
    /\ Running
    /\ pc[c] = "wait"
    /\ pc' = [pc EXCEPT ![c] = "files"]
    /\ UNCHANGED <<config, hConfig, mu, envVars, minLevel, closed, chanVars, routerVars,
                   outVars, pool, ctxDone, cur, ncalls, runVars, errPc, panic,
                   histVars>>

\* cl.wg.Wait()
CloseWait(c) ==
    /\ Running
    /\ pc[c] = "wait"
    /\ wg = 0
    /\ pc' = [pc EXCEPT ![c] = "files"]
    /\ UNCHANGED <<config, hConfig, mu, envVars, minLevel, closed, chanVars, routerVars, outVars,
                   pool, ctxDone, cur, ncalls, runVars, errPc, panic, histVars>>

\* the sets of handles whose Close may fail: none, or any one of them
CloseFailures(pkgs) == {{}} \cup {{k} : k \in pkgs}

RECURSIVE CloseErrors(_)
\* the errors of the failed closes, in the order the range met them
CloseErrors(failing) ==
    IF failing = {} THEN <<>>
    ELSE LET k == CHOOSE x \in failing : TRUE
         IN  <<ErrCloseLogFile(k)>> \o CloseErrors(failing \ {k})

\* the loop over cl.files under cl.mu: every handle is closed and each
\* failure is passed to handleError
CloseFilesAt(c, from, to) ==
    /\ Running
    /\ pc[c] = from
    /\ \E failing \in CloseFailures(DOMAIN files) :
          LET es == handleErrorAll(ES, CloseErrors(failing), config.ErrorHandler,
                                   errorChanClosed)
          IN  SetErrors(es)
    /\ files' = [k \in DOMAIN files |-> [files[k] EXCEPT !.open = FALSE]]
    /\ pc' = [pc EXCEPT ![c] = to]
    /\ UNCHANGED <<config, hConfig, mu, envVars, minLevel, closed, logChan, logChanClosed,
                   errorChanClosed, done, wg, loggers, fileSizes, fs, inodes,
                   stdout, handled, pool, ctxDone, cur, ncalls, runVars, errPc,
                   histVars>>

\* Lock, the loop and Unlock in one step
CloseFiles(c) == CloseFilesAt(c, "files", "logChan")

\* close(cl.logChan)
CloseLogChan(c) ==
    /\ Running
    /\ pc[c] = "logChan"
    /\ logChanClosed' = TRUE
    /\ pc' = [pc EXCEPT ![c] = "errorChan"]
    /\ UNCHANGED <<config, hConfig, mu, envVars, minLevel, closed, logChan, errorChan,
                   errorChanClosed, done, wg, routerVars, outVars, pool, ctxDone,
                   cur, ncalls, runVars, errPc, panic, histVars>>

\* close(cl.errorChan), and Close returns
CloseErrorChan(c) ==
    /\ Running
    /\ pc[c] = "errorChan"
    /\ errorChanClosed' = TRUE
    /\ pc' = [pc EXCEPT ![c] = "idle"]
    /\ hCloseReturned' = TRUE
    /\ UNCHANGED <<config, hConfig, mu, envVars, minLevel, closed, logChan, logChanClosed,
                   errorChan, done, wg, routerVars, outVars, pool, ctxDone, cur,
                   ncalls, runVars, errPc, panic, hLastSet, hLowestMin, hEnqueued,
                   hWinners, hAfter,
                   hSkipped, hDropped>>

(***************************************************************************)
(* The run goroutine.                                                      *)
(***************************************************************************)
\* the context check after a receive
Cancelled(entry) == entry.Context /\ ctxDone

\* a run that filters by level again when it receives
RunRecvFiltering ==
    /\ Running
    /\ runPc = "select"
    /\ logChan # <<>>
    /\ logChan' = Tail(logChan)
    /\ IF Cancelled(ChanRecv(logChan)) \/ ChanRecv(logChan).Level < minLevel
       THEN /\ pool' = putLogEntry(pool, ChanRecv(logChan))
            /\ UNCHANGED runVars
       ELSE /\ runEntry' = ChanRecv(logChan)
            /\ runPc' = "getLogger"
            /\ UNCHANGED pool
    /\ UNCHANGED <<config, hConfig, mu, envVars, minLevel, closed, logChanClosed, errorChan,
                   errorChanClosed, done, wg, routerVars, outVars, ctxDone,
                   callVars, errPc, panic, histVars>>

\* a run that does not look at the context of the entry it receives
RunRecvNoContextCheck ==
    /\ Running
    /\ runPc = "select"
    /\ logChan # <<>>
    /\ logChan' = Tail(logChan)
    /\ runEntry' = ChanRecv(logChan)
    /\ runPc' = "getLogger"
    /\ UNCHANGED <<config, hConfig, mu, envVars, minLevel, closed, logChanClosed, errorChan,
                   errorChanClosed, done, wg, routerVars, outVars, pool, ctxDone,
                   callVars, errPc, panic, histVars>>

\* a run that empties the queue when it meets a cancelled entry
RunRecvCancelAll ==
    /\ Running
    /\ runPc = "select"
    /\ logChan # <<>>
    /\ IF Cancelled(ChanRecv(logChan))
       THEN /\ logChan' = <<>>
            /\ pool' = putLogEntry(pool, ChanRecv(logChan))
            /\ hDropped' = hDropped \cup {<<ChanRecv(logChan).Message, runPc>>}
            /\ UNCHANGED runVars
       ELSE /\ logChan' = Tail(logChan)
            /\ runEntry' = ChanRecv(logChan)
            /\ runPc' = "getLogger"
            /\ UNCHANGED <<pool, hDropped>>
    /\ UNCHANGED <<config, hConfig, mu, envVars, minLevel, closed, logChanClosed, errorChan,
                   errorChanClosed, done, wg, routerVars, outVars, ctxDone,
                   callVars, errPc, panic, hLastSet, hLowestMin, hEnqueued,
                   hCloseReturned, hWinners, hAfter, hSkipped>>

\* case entry := <-cl.logChan, with the context check
RunRecv ==
    /\ Running
    /\ runPc = "select"
    /\ logChan # <<>>
    /\ logChan' = Tail(logChan)
    /\ IF Cancelled(ChanRecv(logChan))
       THEN /\ pool' = putLogEntry(pool, ChanRecv(logChan))
            /\ hDropped' = hDropped \cup {<<ChanRecv(logChan).Message, runPc>>}
            /\ UNCHANGED runVars
       ELSE /\ runEntry' = ChanRecv(logChan)
            /\ runPc' = "getLogger"
            /\ UNCHANGED <<pool, hDropped>>
    /\ UNCHANGED <<config, hConfig, mu, envVars, minLevel, closed, logChanClosed, errorChan,
                   errorChanClosed, done, wg, routerVars, outVars, ctxDone,
                   callVars, errPc, panic, hLastSet, hLowestMin, hEnqueued,
                   hCloseReturned, hWinners, hAfter, hSkipped>>

\* getLogger: the read of cl.closed
RunGetLogger ==
    /\ Running
    /\ runPc = "getLogger"
    /\ runPc' = IF closed THEN "writeClosed" ELSE "writeOpen"
    /\ UNCHANGED <<config, hConfig, mu, envVars, minLevel, closed, chanVars, routerVars, outVars,
                   pool, ctxDone, callVars, runEntry, errPc, panic, histVars>>

\* the steady state after the read of cl.closed: the rest of getLogger, the
\* byte counter, Println and putLogEntry
RunWrite ==
    /\ Running
    /\ runPc \in {"writeOpen", "writeClosed"}
    /\ \E formatted \in FormatLogMessages(runEntry),
          got \in {getLogger(RS, runEntry.Package, config, runPc = "writeClosed",
                             dirOK, dirWritable)} :
          LET pkg == runEntry.Package
              es == handleErrorAll(ES, got.errs, config.ErrorHandler,
                                   errorChanClosed)
              messageSize == Len(formatted) + 1
              sized == [got.rs EXCEPT !.fileSizes =
                           Put(@, pkg, (IF pkg \in DOMAIN @ THEN @[pkg] ELSE 0)
                                       + messageSize)]
          IN  \E out \in {Println(sized, stdout, got.logger, formatted)} :
                 /\ SetErrors(es)
                 /\ IF es.panic = ""
                    THEN /\ SetRouter(out.rs)
                         /\ stdout' = out.stdout
                         /\ pool' = putLogEntry(pool, runEntry)
                         /\ runEntry' = ZeroEntry
                         /\ runPc' = "select"
                    ELSE UNCHANGED <<routerVars, stdout, pool, runVars>>
    /\ UNCHANGED <<config, hConfig, mu, envVars, minLevel, closed, logChan, logChanClosed,
                   errorChanClosed, done, wg, handled, ctxDone, callVars, errPc,
                   histVars>>

\* case <-cl.done
RunDone ==
    /\ Running
    /\ runPc = "select"
    /\ done
    /\ runPc' = "drain"
    /\ UNCHANGED <<config, hConfig, mu, envVars, minLevel, closed, chanVars, routerVars, outVars,
                   pool, ctxDone, callVars, runEntry, errPc, panic, histVars>>

\* one turn of the drain loop: receive, context check, getLogger, Println
RunDrain ==
    /\ Running
    /\ runPc = "drain"
    /\ Len(logChan) > 0
    /\ logChan' = Tail(logChan)
    /\ LET entry == ChanRecv(logChan)
       IN  IF Cancelled(entry)
           THEN /\ pool' = putLogEntry(pool, entry)
                /\ hDropped' = hDropped \cup {<<entry.Message, runPc>>}
                /\ UNCHANGED <<routerVars, errorChan, stderr, panic, stdout>>
           ELSE \E formatted \in FormatLogMessages(entry),
                   got \in {getLogger(RS, entry.Package, config, closed, dirOK,
                                      dirWritable)} :
                   \E out \in {Println(got.rs, stdout, got.logger, formatted)} :
                      /\ SetErrors(handleErrorAll(ES, got.errs, config.ErrorHandler,
                                                  errorChanClosed))
                      /\ SetRouter(out.rs)
                      /\ stdout' = out.stdout
                      /\ pool' = putLogEntry(pool, entry)
                      /\ UNCHANGED hDropped
    /\ UNCHANGED <<config, hConfig, mu, envVars, minLevel, closed, logChanClosed,
                   errorChanClosed, done, wg, handled, ctxDone, callVars, runVars,
                   errPc, hLastSet, hLowestMin, hEnqueued, hCloseReturned,
                   hWinners, hAfter, hSkipped>>

\* the drain loop found the channel empty: return, wg.Done()
RunExit ==
    /\ Running
    /\ runPc = "drain"
    /\ Len(logChan) = 0
    /\ runPc' = "exited"
    /\ wg' = wg - 1
    /\ UNCHANGED <<config, hConfig, mu, envVars, minLevel, closed, logChan, logChanClosed,
                   errorChan, errorChanClosed, done, routerVars, outVars, pool,
                   ctxDone, callVars, runEntry, errPc, panic, histVars>>

(***************************************************************************)
(* The handleErrors goroutine.                                             *)
(***************************************************************************)
\* case err := <-cl.errorChan: cl.config.ErrorHandler(err)
HandleErrorsRecv ==
    /\ Running
    /\ errPc = "select"
    /\ errorChan # <<>>
    /\ handled' = Append(handled, ChanRecv(errorChan))
    /\ errorChan' = Tail(errorChan)
    /\ UNCHANGED <<config, hConfig, mu, envVars, minLevel, closed, logChan, logChanClosed,
                   errorChanClosed, done, wg, routerVars, stdout, stderr, pool,
                   ctxDone, callVars, runVars, errPc, panic, histVars>>

\* case <-cl.done
HandleErrorsDone ==
    /\ Running
    /\ errPc = "select"
    /\ done
    /\ errPc' = "drain"
    /\ UNCHANGED <<config, hConfig, mu, envVars, minLevel, closed, chanVars, routerVars, outVars,
                   pool, ctxDone, callVars, runVars, panic, histVars>>

\* one turn of the loop over the remaining errors
HandleErrorsDrain ==
    /\ Running
    /\ errPc = "drain"
    /\ Len(errorChan) > 0
    /\ handled' = Append(handled, ChanRecv(errorChan))
    /\ errorChan' = Tail(errorChan)
    /\ UNCHANGED <<config, hConfig, mu, envVars, minLevel, closed, logChan, logChanClosed,
                   errorChanClosed, done, wg, routerVars, stdout, stderr, pool,
                   ctxDone, callVars, runVars, errPc, panic, histVars>>

\* the loop found the channel empty: return, wg.Done()
HandleErrorsExit ==
    /\ Running
    /\ errPc = "drain"
    /\ Len(errorChan) = 0
    /\ errPc' = "exited"
    /\ wg' = wg - 1
    /\ UNCHANGED <<config, hConfig, mu, envVars, minLevel, closed, logChan, logChanClosed,
                   errorChan, errorChanClosed, done, routerVars, outVars, pool,
                   ctxDone, callVars, runVars, panic, histVars>>

(***************************************************************************)
(* The goroutines of the engine and the calls, as sets of steps.           *)
(***************************************************************************)
LogEntryStep(p) ==
    \/ LogEntryClosed(p)
    \/ LogEntryLevel(p)
    \/ LogEntrySend(p)
    \/ LogEntryDrop(p)

Close(c) ==
    \/ CloseCAS(c)
    \/ CloseSignal(c)
    \/ CloseWait(c)
    \/ CloseFiles(c)
    \/ CloseLogChan(c)
    \/ CloseErrorChan(c)

\* the steps of the Close that won the CAS
CloseRest(c) ==
    \/ CloseSignal(c)
    \/ CloseWait(c)
    \/ CloseFiles(c)
    \/ CloseLogChan(c)
    \/ CloseErrorChan(c)

run == RunRecv \/ RunGetLogger \/ RunWrite \/ RunDone \/ RunDrain \/ RunExit

handleErrors ==
    HandleErrorsRecv \/ HandleErrorsDone \/ HandleErrorsDrain \/ HandleErrorsExit

PkgA == <<"a">>
PkgB == <<"b">>

\* a small engine: the queue holds QueueCap entries, a file rotates after
\* one line, the directory is writable
SmallConfig(minimum, hasHandler) ==
    [DefaultConfig EXCEPT !.BufferSize = QueueCap, !.LogDir = "logs",
                          !.MinLevel = minimum, !.MaxFileSize = MaxFileSize,
                          !.MaxFiles = MaxFiles, !.ErrorHandler = hasHandler]

(***************************************************************************)
(* Spec: shutdown.  Two producers use the four ingestion calls while two   *)
(* goroutines call Close, with and without an error handler.               *)
(***************************************************************************)
Init == \E hasHandler \in BOOLEAN :
            NewChannelLoggerWithConfig(SmallConfig(DEBUG, hasHandler), TRUE)

\* p1 uses the calls with a typed level, p2 those with a level string
Ingest(p) ==
    /\ TotalCalls < MaxCalls
    /\ \/ p = "p1" /\ LogLevel(p, PkgA, INFO, Msg(p))
       \/ p = "p1" /\ LogWithFields(p, PkgB, ERROR, Msg(p), [user |-> "u1"])
       \/ p = "p2" /\ Log(p, PkgB, <<"e", "r", "r", "o", "r">>, Msg(p))
       \/ p = "p2" /\ LogWithContext(p, PkgA, <<"I", "n", "f", "o">>, Msg(p))

Next ==
    \/ \E p \in Producers : Ingest(p)
    \/ \E p \in Producers : LogEntryStep(p)
    \/ \E c \in Closers : Close(c)
    \/ run
    \/ handleErrors

Spec == Init /\ [][Next]_vars

(***************************************************************************)
(* SpecE2E: one caller logs two messages and closes an engine of capacity  *)
(* 10 in a writable directory.                                             *)
(***************************************************************************)
PkgSvc == <<"s", "v", "c">>

InitE2E ==
    NewChannelLoggerWithConfig(
        [DefaultConfig EXCEPT !.BufferSize = 10, !.LogDir = "/tmp/x"], TRUE)

NextE2E ==
    \/ ncalls["p1"] = 0 /\ Info("p1", PkgSvc, "started")
    \/ ncalls["p1"] = 1 /\ Error("p1", PkgSvc, "boom")
    \/ LogEntryClosed("p1")
    \/ LogEntryLevel("p1")
    \/ LogEntrySend("p1")
    \/ ncalls["p1"] = 2 /\ ~hCloseReturned /\ Close("p1")
    \/ run

SpecE2E == InitE2E /\ [][NextE2E]_vars

(***************************************************************************)
(* SpecLevel: one producer logs at every level while the minimum level is  *)
(* changed and the engine is closed.                                       *)
(***************************************************************************)
InitLevel == \E minimum \in {DEBUG, INFO} :
                 NewChannelLoggerWithConfig(SmallConfig(minimum, FALSE), TRUE)

NextLevel ==
    \/ /\ TotalCalls < MaxLevelCalls
       /\ \/ Debug("p1", PkgA, Msg("p1"))
          \/ Info("p1", PkgA, Msg("p1"))
          \/ Error("p1", PkgA, Msg("p1"))
    \/ LogEntryStep("p1")
    \/ \E level \in Levels : SetMinLevel(level)
    \/ Close("c1")
    \/ run

SpecLevel == InitLevel /\ [][NextLevel]_vars

(***************************************************************************)
(* SpecOrder: two producers log to one file, some calls carry the context, *)
(* which is cancelled at any moment; the engine stays open.                *)
(***************************************************************************)
InitOrder ==
    NewChannelLoggerWithConfig(
        [SmallConfig(DEBUG, FALSE) EXCEPT !.BufferSize = OrderQueueCap], TRUE)

NextOrder ==
    \/ /\ TotalCalls < MaxOrderCalls
       /\ \/ \E p \in Producers : Info(p, PkgA, Msg(p))
          \/ LogWithContext("p2", PkgA, <<"e", "r", "r", "o", "r">>, Msg("p2"))
    \/ \E p \in Producers : LogEntryStep(p)
    \/ Cancel
    \/ RunRecv
    \/ RunGetLogger
    \/ RunWrite

SpecOrder == InitOrder /\ [][NextOrder]_vars

(***************************************************************************)
(* SpecFair: one producer and one Close, every goroutine that can take a   *)
(* step eventually scheduled.                                              *)
(***************************************************************************)
NextFair ==
    \/ TotalCalls < MaxCalls /\ Info("p1", PkgA, Msg("p1"))
    \/ LogEntryStep("p1")
    \/ Close("c1")
    \/ run
    \/ handleErrors

SpecFair ==
    /\ Init
    /\ [][NextFair]_vars
    /\ WF_vars(LogEntryStep("p1"))
    /\ WF_vars(CloseRest("c1"))
    /\ WF_vars(run)
    /\ WF_vars(handleErrors)

(***************************************************************************)
(* Properties of shutdown, checked under Spec.                             *)
(***************************************************************************)
\* what an ingestion call can add to or write: the two channels, the
\* output streams, the files
Effects == <<logChan, errorChan, stdout, stderr, handled, fs, inodes, panic>>

\* the state of the engine, without the callers' own positions
EngineState ==
    <<minLevel, closed, chanVars, routerVars, outVars, pool, ctxDone, cur, ncalls,
      runVars, errPc, panic>>

\* the Close that won the CAS has returned
TeardownDone == errorChanClosed

\* C2: when Close() returns, every record that was enqueued has been taken
\* from the queue and processed by the run goroutine: the queue is empty.
C2_DrainComplete == TeardownDone => (logChan = <<>> /\ runPc = "exited")

\* C3: once Close() has raised the shutdown signal (closed set, done closed)
\* no ingestion call adds a record to the queue.
C3_NoEnqueueAfterSignal ==
    [][(closed /\ done) => hEnqueued' = hEnqueued]_vars

\* C4: no interleaving of ingestion calls with Close() aborts the process:
\* no send on logChan or errorChan happens after Close closed the channel.
C4_NoAbort == panic = ""

\* C5: an ingestion call that starts after Close() has returned is a silent
\* no-op: it enqueues nothing, writes nothing, reports no error, and the
\* only step it takes after acquiring its entry is the one that releases it.
C5_AfterCloseNoOp ==
    [][\A p \in Producers :
          /\ (hCloseReturned /\ ncalls'[p] # ncalls[p])
                => (UNCHANGED Effects /\ pc'[p] \in {"idle", "logEntry"})
          /\ (hAfter[p] /\ pc[p] # "idle" /\ pc'[p] # pc[p])
                => /\ pc[p] = "logEntry"
                   /\ pc'[p] = "idle"
                   /\ pool' = Append(pool, ZeroEntry)
                   /\ UNCHANGED Effects]_vars

\* a call that started after Close() returned has itself returned
C5_Witness ==
    \E p \in Producers : hAfter[p] /\ ncalls[p] > 0 /\ pc[p] = "idle" /\ pool # <<>>

\* C6: over any number of sequential or concurrent Close() calls the
\* teardown runs exactly once: one call wins the CAS, no channel is closed
\* twice, a call that finds the flag set changes nothing, and when the
\* winner has returned every step of the teardown has been taken.
C6_CloseOnce ==
    [][/\ Cardinality(hWinners') <= 1
       /\ panic' # "close of closed channel"
       /\ \A c \in Closers : (closed /\ CloseCAS(c)) => UNCHANGED EngineState
       /\ TeardownDone' => /\ closed' /\ done' /\ logChanClosed' /\ wg' = 0
                           /\ \A k \in DOMAIN files' : ~files'[k].open]_vars

\* a second Close() has returned while the first is still tearing down, and
\* a Close() that won has returned
C6_Witness ==
    \/ hCloseReturned /\ \E c \in hWinners : pc[c] = "wait"
    \/ TeardownDone /\ files # EmptyMap

(***************************************************************************)
(* Reading the output.                                                     *)
(***************************************************************************)
\* the lines of the file at a path, empty when there is none
FileLines(fsys, nodes, name) ==
    IF name \in DOMAIN fsys THEN nodes[fsys[name]] ELSE <<>>

\* the line of a call without fields
LineOf(level, message) ==
    FormatHead([ZeroEntry EXCEPT !.Level = level, !.Message = message,
                                 !.Timestamp = Clock])

\* the calls the producers can make, as <<producer, number>>
Calls == Producers \X (1 .. (MaxCalls + MaxLevelCalls + MaxOrderCalls + 1))

\* the lines of calls at a level below l
LinesBelow(l) ==
    {LineOf(k, MsgOf(c[1], c[2])) : k \in {x \in Levels : x < l}, c \in Calls}

\* every line written anywhere: standard output and all files
Written(out, nodes) ==
    Range(out) \cup UNION {Range(nodes[n]) : n \in DOMAIN nodes}

(***************************************************************************)
(* C1, checked under SpecE2E.                                              *)
(***************************************************************************)
\* C1: after Info(c, m1), Error(c, m2), Close() by one caller on an engine
\* of capacity 10, once Close has returned the file <dir>/<c>.log holds
\* exactly the INFO line of m1 followed by the ERROR line of m2.
C1_EndToEnd ==
    TeardownDone =>
        FileLines(fs, inodes, "/tmp/x/svc.log")
            = <<LineOf(INFO, "started"), LineOf(ERROR, "boom")>>

(***************************************************************************)
(* C7, checked under SpecFair.                                             *)
(***************************************************************************)
\* C7: Close() always returns: once a call of Close has won the CAS, the
\* run and handleErrors goroutines terminate and the call returns.
C7_CloseReturns == closed ~> TeardownDone

(***************************************************************************)
(* C8 and C9, checked under SpecLevel.                                     *)
(***************************************************************************)
\* C8: a call whose level is below the minimum level it reads is released
\* and never enqueued; a call at or above it goes on to the send and is
\* enqueued when the queue has room, and run writes it to the file of its
\* category when it processes it in the open engine; no record in the queue
\* and no line in any file or on standard output is below the lowest minimum
\* level the engine has had (with minimum INFO, no DEBUG line).
C8_LevelFilter ==
    [][/\ \A p \in Producers :
             (pc[p] = "level" /\ pc'[p] # "level")
                => IF cur[p].Level < minLevel
                   THEN /\ pc'[p] = "idle"
                        /\ logChan' = logChan
                        /\ hEnqueued' = hEnqueued
                        /\ pool' = Append(pool, ZeroEntry)
                   ELSE pc'[p] = "send"
       /\ \A p \in Producers :
             (/\ pc[p] = "send" /\ pc'[p] # "send"
              /\ ~logChanClosed /\ Len(logChan) < config.BufferSize)
                => logChan' = Append(logChan, cur[p])
       /\ (runPc = "writeOpen" /\ runPc' # runPc)
             => LineOf(runEntry.Level, runEntry.Message)
                   \in Range(FileLines(fs', inodes',
                                       BaseName(config.LogDir, runEntry.Package)))
       /\ \A i \in DOMAIN logChan' : logChan'[i].Level >= hLowestMin'
       /\ Written(stdout', inodes') \cap LinesBelow(hLowestMin') = {}]_vars

\* the minimum level has been INFO throughout, both calls of p1 returned,
\* nothing was dropped or closed: one call was filtered, the other is in
\* the file
C8_Witness ==
    /\ config.MinLevel = INFO /\ hLowestMin = INFO /\ minLevel = INFO
    /\ ~closed /\ stderr = <<>>
    /\ ncalls["p1"] = 2 /\ pc["p1"] = "idle"
    /\ Len(hEnqueued) = 1
    /\ FileLines(fs, inodes, "logs/a.log")
           = <<LineOf(hEnqueued[1].Level, hEnqueued[1].Message)>>

\* C9: GetMinLevel returns the level of the last SetMinLevel; the level
\* check of an ingestion call compares with that level; run does not filter:
\* every record it receives whose context is not cancelled is written, in
\* the steady state to the file as well, whatever the minimum level is by
\* then.
C9_RuntimeLevel ==
    [][/\ GetMinLevel' = hLastSet'
       /\ \A p \in Producers :
             (pc[p] = "level" /\ pc'[p] # "level")
                => (pc'[p] = "send" <=> cur[p].Level >= hLastSet)
       /\ (runPc = "select" /\ Len(logChan') < Len(logChan))
             => \/ Cancelled(Head(logChan))
                \/ runPc' = "getLogger" /\ runEntry' = Head(logChan)
       /\ (runPc \in {"writeOpen", "writeClosed"} /\ runPc' # runPc)
             => \E line \in FormatLogMessages(runEntry) :
                   /\ stdout' = Append(stdout, line)
                   /\ runPc = "writeOpen" =>
                         LET lines == FileLines(fs', inodes',
                                          BaseName(config.LogDir, runEntry.Package))
                         IN  lines # <<>> /\ lines[Len(lines)] = line
       /\ (runPc = "drain" /\ Len(logChan') < Len(logChan)
                           /\ ~Cancelled(Head(logChan)))
             => \E line \in FormatLogMessages(Head(logChan)) :
                   stdout' = Append(stdout, line)]_vars

\* a record accepted under a lower level waits in the queue after the level
\* was raised above it
C9_Witness ==
    /\ runPc = "select"
    /\ logChan # <<>>
    /\ Head(logChan).Level < minLevel
    /\ hLastSet = minLevel

(***************************************************************************)
(* C10, checked under SpecOrder.                                           *)
(***************************************************************************)
\* the place in the order of arrival of the entry a line was formatted from
EnqIndex(line) ==
    CHOOSE j \in DOMAIN hEnqueued : line \in FormatLogMessages(hEnqueued[j])

\* the call a line comes from
Owner(line) ==
    CHOOSE c \in Calls : \E l \in Levels : line = LineOf(l, MsgOf(c[1], c[2]))

\* the lines are in the order in which their entries entered the queue
InArrivalOrder(lines) ==
    /\ \A i \in DOMAIN lines :
          \E j \in DOMAIN hEnqueued : lines[i] \in FormatLogMessages(hEnqueued[j])
    /\ \A i, j \in DOMAIN lines :
          i < j => EnqIndex(lines[i]) < EnqIndex(lines[j])

\* the lines of each producer are in the order it made the calls
InSubmissionOrder(lines) ==
    \A i, j \in DOMAIN lines :
        (i < j /\ Owner(lines[i])[1] = Owner(lines[j])[1])
            => Owner(lines[i])[2] < Owner(lines[j])[2]

\* C10: run writes records in the order they entered the queue (the queue
\* holds the latest arrivals in arrival order, standard output and every
\* file hold lines in arrival order), so in each file the lines of one
\* producer are in the order the producer submitted them.
C10_Fifo ==
    /\ Len(logChan) <= Len(hEnqueued)
    /\ logChan = SubSeq(hEnqueued, Len(hEnqueued) - Len(logChan) + 1, Len(hEnqueued))
    /\ InArrivalOrder(stdout)
    /\ \A n \in DOMAIN inodes :
          InArrivalOrder(inodes[n]) /\ InSubmissionOrder(inodes[n])

\* three lines were written, and a file holds two lines of one producer
C10_Witness ==
    /\ Len(stdout) >= 3
    /\ \E n \in DOMAIN inodes :
          /\ Len(inodes[n]) >= 2
          /\ Owner(inodes[n][1])[1] = Owner(inodes[n][2])[1]

(***************************************************************************)
(* SpecRotate: one producer logs to two categories whose files rotate      *)
(* before every line but the first.                                        *)
(***************************************************************************)
Categories == {PkgA, PkgB}

InitRotate ==
    NewChannelLoggerWithConfig(
        [SmallConfig(DEBUG, FALSE) EXCEPT !.MaxFileSize = RotateFileSize], TRUE)

NextRotate ==
    \/ /\ TotalCalls < MaxRotateCalls
       /\ \E pkg \in Categories : Info("p1", pkg, Msg("p1"))
    \/ LogEntryStep("p1")
    \/ RunRecv
    \/ RunGetLogger
    \/ RunWrite

SpecRotate == InitRotate /\ [][NextRotate]_vars

\* the paths of a category: its base file and its numbered backups
BackupsOf(pkg) ==
    {BackupName(BaseName(config.LogDir, pkg), i) : i \in 1 .. (config.MaxFiles + 2)}
PathsOf(pkg) == {BaseName(config.LogDir, pkg)} \cup BackupsOf(pkg)

\* the entries logged to a category that entered the queue
LoggedTo(pkg) == {hEnqueued[j] : j \in {k \in DOMAIN hEnqueued : hEnqueued[k].Package = pkg}}

\* the lines in the files of a category that exist
LinesIn(pkg) ==
    UNION {Range(FileLines(fs, inodes, path)) : path \in PathsOf(pkg)}

(***************************************************************************)
(* C11, C19 and C20, checked under SpecRotate.                             *)
(***************************************************************************)
\* C11: for two categories whose sanitized names differ, no line of a record
\* logged to one is in the base file or in a backup of the other.
C11_Isolation ==
    \A a, b \in Categories :
        sanitizePackageName(a) # sanitizePackageName(b)
            => \A e \in LoggedTo(a) : FormatLogMessages(e) \cap LinesIn(b) = {}

\* both categories have lines on disk and one of them has a backup
C11_Witness ==
    /\ LinesIn(PkgA) # {} /\ LinesIn(PkgB) # {}
    /\ \E pkg \in Categories : BackupName(BaseName(config.LogDir, pkg), 1) \in DOMAIN fs

\* C19: a category has at most MaxFiles-1 numbered backups, numbered 1 to
\* MaxFiles-1: no backup numbered MaxFiles or higher is on disk.
C19_Retention ==
    \A pkg \in Categories :
        /\ Cardinality(BackupsOf(pkg) \cap DOMAIN fs) <= config.MaxFiles - 1
        /\ \A i \in config.MaxFiles .. (config.MaxFiles + 2) :
              BackupName(BaseName(config.LogDir, pkg), i) \notin DOMAIN fs

\* the base file as number 0, backup i as number i
Numbered(baseName, i) == IF i = 0 THEN baseName ELSE BackupName(baseName, i)

\* the place of a line in the order of the writes: standard output receives
\* every line run writes
WrittenAt(out, line) == CHOOSE k \in DOMAIN out : out[k] = line

\* the lines of the file at a path were all written after those at another
Newer(fsys, nodes, out, path, other) ==
    \A x \in Range(FileLines(fsys, nodes, path)),
       y \in Range(FileLines(fsys, nodes, other)) :
          WrittenAt(out, x) > WrittenAt(out, y)

InitCancel ==
    NewChannelLoggerWithConfig(
        [SmallConfig(DEBUG, FALSE) EXCEPT !.BufferSize = OrderQueueCap], TRUE)

NextCancel ==
    \/ /\ TotalCalls < MaxCancelCalls
       /\ \/ LogWithContext("p2", PkgA, <<"i", "n", "f", "o">>, Msg("p2"))
          \/ Info("p2", PkgA, Msg("p2"))
    \/ LogEntryStep("p2")
    \/ Cancel
    \/ Close("c1")
    \/ run

SpecCancel == InitCancel /\ [][NextCancel]_vars

\* the lines that carry the message
LinesOf(message) == {LineOf(l, message) : l \in Levels}

\* the errors the engine has reported, on any path
Reported(err, errCh, hnd) == Range(err) \cup Range(errCh) \cup Range(hnd)

(***************************************************************************)
(* C13, C14 and C15, checked under SpecCancel.                             *)
(***************************************************************************)
\* C13: a LogWithContext call made when its context is already done changes
\* nothing: no entry is taken from the pool, nothing is enqueued, nothing
\* is written and no error is reported, then or later.
C13_SignaledNoOp ==
    [][/\ \A p \in Producers :
             (/\ ctxDone /\ ncalls'[p] # ncalls[p]
              /\ (cur'[p].Context \/ hSkipped' # hSkipped))
                => UNCHANGED <<Effects, pool, pc, cur, hEnqueued, runVars>>
       /\ \A m \in hSkipped' :
             /\ \A i \in DOMAIN logChan' : logChan'[i].Message # m
             /\ \A i \in DOMAIN hEnqueued' : hEnqueued'[i].Message # m
             /\ runEntry'.Message # m
             /\ LinesOf(m) \cap Written(stdout', inodes') = {}
             /\ ErrChannelFull(m) \notin Reported(stderr', errorChan', handled')]_vars

\* a call was made with the context done, and a later call was written
C13_Witness ==
    /\ hSkipped # {}
    /\ \E m \in hSkipped, k \in 1 .. MaxCancelCalls :
          /\ m = MsgOf("p2", k)
          /\ \E j \in (k + 1) .. (MaxCancelCalls + 1) :
                LineOf(INFO, MsgOf("p2", j)) \in Range(stdout)

\* run receives an entry whose context is done
DropStep ==
    /\ logChan # <<>>
    /\ Len(logChan') < Len(logChan)
    /\ Cancelled(Head(logChan))

\* C14: when run receives, in its select loop or in the drain loop, an entry
\* whose context is done, it writes nothing, leaves the byte counters and
\* the files as they are and puts the reset entry in the pool; the entry is
\* never written.
C14_CancelledDropped ==
    [][/\ DropStep
          => /\ UNCHANGED <<stdout, stderr, errorChan, fs, inodes, fileSizes,
                            loggers, files>>
             /\ pool' = Append(pool, ZeroEntry)
             /\ runEntry' = runEntry
       /\ \A d \in hDropped' :
             LinesOf(d[1]) \cap Written(stdout', inodes') = {}]_vars

\* run has released one entry in its select loop and one in the drain loop
C14_Witness ==
    \E x, y \in hDropped : x[2] = "select" /\ y[2] = "drain"

\* the entries run has received
Processed ==
    SubSeq(hEnqueued, 1,
           Len(hEnqueued) - Len(logChan)
             - (IF runPc \in {"getLogger", "writeOpen", "writeClosed"} THEN 1 ELSE 0))

NotDropped(entry) == \A d \in hDropped : d[1] # entry.Message

\* the lines of the entries run has received and not released for a done
\* context, in the order they entered the queue
LinesDue ==
    LET kept == SelectSeq(Processed, NotDropped)
    IN  [i \in DOMAIN kept |-> FormatHead(kept[i])]

\* C15: releasing an entry for its done context removes that entry alone:
\* run stays where it is, the rest of the queue stays in place, and what
\* has been written is always exactly the lines of the other entries run has
\* received, in the order they entered the queue.
C15_PerRecord ==
    [][/\ DropStep => /\ runPc' = runPc
                      /\ logChan' = Tail(logChan)
                      /\ panic' = panic
       /\ Len(logChan') <= Len(hEnqueued')
       /\ stdout' = LinesDue']_vars

\* an entry was released for its context and one behind it was written
C15_Witness ==
    \E i, j \in DOMAIN hEnqueued :
        /\ i < j
        /\ ~NotDropped(hEnqueued[i])
        /\ FormatHead(hEnqueued[j]) \in Range(stdout)

(***************************************************************************)
(* C12, checked under Spec.                                                *)
(***************************************************************************)
RECURSIVE LineCount(_)
\* the number of lines in the files at a set of paths
LineCount(paths) ==
    IF paths = {} THEN 0
    ELSE LET path == CHOOSE x \in paths : TRUE
         IN  Len(FileLines(fs, inodes, path)) + LineCount(paths \ {path})

\* no call has dropped its record for a full queue
NoDrops ==
    \A err \in Reported(stderr, errorChan, handled) : err[1] # ErrChannelFull("")[1]

\* every call has returned and run has received and handled every entry
\* that entered the queue
AllProcessed ==
    /\ \A p \in Producers : pc[p] = "idle"
    /\ logChan = <<>>
    /\ runPc \in {"select", "drain", "exited"}

\* C12: when no record was dropped for a full queue or a done context and
\* every accepted record has been processed, the files of each category
\* hold exactly one line for each record logged to it: as many lines as
\* records, and a line of each record.
C12_NoLossNoDup ==
    (NoDrops /\ hDropped = {} /\ AllProcessed)
        => \A pkg \in Categories :
              /\ LineCount(PathsOf(pkg)) = Cardinality(LoggedTo(pkg))
              /\ \A e \in LoggedTo(pkg) : FormatLogMessages(e) \cap LinesIn(pkg) # {}

(***************************************************************************)
(* C16 and C18, checked under Spec.                                        *)
(***************************************************************************)
\* handleError was called once, with err, and returned
ReportedOnce(err) ==
    /\ panic' = panic
    /\ \/ stderr' = Append(stderr, err) /\ errorChan' = errorChan
       \/ errorChan' = Append(errorChan, err) /\ stderr' = stderr

\* the calls that have reported a full queue
QueueFullErrors ==
    {err \in Reported(stderr, errorChan, handled) : err[1] = ErrChannelFull("")[1]}

\* C16: with a capacity of at most 10, a call that finds the queue full
\* goes on to drop its record without waiting, and the drop reports one
\* "log channel full" error, releases the entry and returns; when run has
\* received nothing and more calls have passed the checks and returned than
\* the queue holds, a "log channel full" error has been reported.
C16_SmallBufferDrop ==
    [][/\ \A p \in Producers :
             /\ (/\ LogEntrySend(p) /\ ~logChanClosed
                 /\ Len(logChan) >= config.BufferSize
                 /\ config.BufferSize <= SmallBuffer)
                   => pc'[p] = "drop" /\ logChan' = logChan
             /\ (LogEntryDrop(p) /\ config.BufferSize <= SmallBuffer)
                   => /\ ReportedOnce(ErrChannelFull(cur[p].Message))
                      /\ pool' = Append(pool, ZeroEntry)
                      /\ pc'[p] = "idle"
                      /\ logChan' = logChan
       /\ (/\ ~closed' /\ \A p \in Producers : pc'[p] = "idle"
           /\ runPc' = "select" /\ logChan' = hEnqueued'
           /\ hLowestMin' = DEBUG
           /\ ncalls'["p1"] + ncalls'["p2"] - Cardinality(hSkipped')
                 > config.BufferSize)
             => QueueFullErrors' # {}]_vars

\* C18: a call that has passed the closed, level and context checks ends in
\* one of two ways: its entry is in the queue, nothing is reported and the
\* pool is untouched; or the queue is unchanged, one "log channel full"
\* error is reported and the reset entry is in the pool.
C18_DropAccounting ==
    [][\A p \in Producers :
          (/\ pc[p] \in {"send", "retry", "drop"}
           /\ LogEntrySend(p) \/ LogEntryRetrySend(p) \/ LogEntryDrop(p)
           /\ pc'[p] \notin {"retry", "drop"} \/ panic' # panic)
             => /\ pc'[p] = "idle" /\ panic' = panic
                /\ \/ /\ logChan' = Append(logChan, cur[p])
                      /\ UNCHANGED <<stderr, errorChan, pool>>
                   \/ /\ logChan' = logChan
                      /\ ReportedOnce(ErrChannelFull(cur[p].Message))
                      /\ pool' = Append(pool, ZeroEntry)]_vars

(***************************************************************************)
(* SpecBig: one producer fills a queue of more than 10 entries while the   *)
(* engine runs and is closed.                                              *)
(***************************************************************************)
\* the steps of logEntry, the second select included
LogEntryWait(p) ==
    \/ LogEntryStep(p)
    \/ LogEntryRetrySend(p)
    \/ LogEntryTimeout(p)

InitBig ==
    NewChannelLoggerWithConfig(
        [SmallConfig(DEBUG, FALSE) EXCEPT !.BufferSize = BigQueueCap], TRUE)

NextBig ==
    \/ TotalCalls < MaxBigCalls /\ Info("p1", PkgA, Msg("p1"))
    \/ LogEntryWait("p1")
    \/ Close("c1")
    \/ run

SpecBig == InitBig /\ [][NextBig]_vars

(***************************************************************************)
(* C17, checked under SpecBig.                                             *)
(***************************************************************************)
\* C17: a call enters the second select, where it waits, only when the
\* queue is full and the capacity is above 10; the wait ends either with the
\* entry in the queue and the call returned, or with the timer and the drop,
\* after which the call returns with its entry released.
C17_NeverBlocks ==
    [][\A p \in Producers :
          /\ (pc'[p] = "retry" /\ pc[p] # "retry")
                => /\ Len(logChan) >= config.BufferSize
                   /\ config.BufferSize > SmallBuffer
          /\ (LogEntryRetrySend(p) \/ LogEntryTimeout(p))
                => \/ pc'[p] = "idle" /\ logChan' = Append(logChan, cur[p])
                   \/ pc'[p] = "drop" /\ logChan' = logChan
          /\ (LogEntryDrop(p) /\ config.BufferSize > SmallBuffer)
                => pc'[p] = "idle" /\ pool' = Append(pool, ZeroEntry)]_vars

(***************************************************************************)
(* SpecFault: one producer logs to two categories whose files rotate after *)
(* two lines, in a directory that could or could not be created and that   *)
(* may lose its write permission at any moment, with and without an error  *)
(* handler, while the engine runs and is closed.                           *)
(***************************************************************************)
InitFault ==
    \E hasHandler \in BOOLEAN, canMkdir \in BOOLEAN :
        NewChannelLoggerWithConfig(SmallConfig(DEBUG, hasHandler), canMkdir)

NextFault ==
    \/ /\ TotalCalls < MaxFaultCalls
       /\ \E pkg \in Categories : Info("p1", pkg, Msg("p1"))
    \/ LogEntryStep("p1")
    \/ DirReadOnly
    \/ Close("c1")
    \/ run
    \/ handleErrors

SpecFault == InitFault /\ [][NextFault]_vars

\* the byte counter of a package, zero while it has none
Counter(sizes, pkg) == IF pkg \in DOMAIN sizes THEN sizes[pkg] ELSE 0

\* run takes the step in which getLogger calls rotateFile for the package
RotationStep(pkg) ==
    /\ runPc = "writeOpen"
    /\ runPc' # runPc
    /\ runEntry.Package = pkg
    /\ shouldRotate(fileSizes, pkg, config.MaxFileSize)

\* a rotation in which the base file exists and cannot be renamed
RenameFails(pkg) ==
    /\ RotationStep(pkg)
    /\ ~dirWritable
    /\ BaseName(config.LogDir, pkg) \in DOMAIN fs

(***************************************************************************)
(* C21 to C25, checked under SpecFault.                                    *)
(***************************************************************************)
\* C21: in a step that rotates a category its byte counter restarts from
\* zero, so that after the step it is the length of the line written plus
\* one; in every other step the counter of a category stays as it is or
\* grows by the length of the line run writes for it plus one.
C21_ByteCounter ==
    [][\A pkg \in Categories :
          IF RotationStep(pkg)
          THEN \E line \in FormatLogMessages(runEntry) :
                  Counter(fileSizes', pkg) = Len(line) + 1
          ELSE \/ Counter(fileSizes', pkg) = Counter(fileSizes, pkg)
               \/ /\ runPc \in {"writeOpen", "writeClosed"}
                  /\ runEntry.Package = pkg
                  /\ \E line \in FormatLogMessages(runEntry) :
                        /\ stdout' = Append(stdout, line)
                        /\ Counter(fileSizes', pkg)
                              = Counter(fileSizes, pkg) + Len(line) + 1]_vars

\* C22: a rotation whose rename of the base file fails reports an error,
\* to the error channel or to standard error.
C22_RotationFailedReported ==
    [][\A pkg \in Categories :
          RenameFails(pkg)
             => Len(stderr') + Len(errorChan') > Len(stderr) + Len(errorChan)]_vars

\* C23: after a rotation whose rename of the base file fails, the byte
\* counter has restarted from zero and is below MaxFileSize again, so that
\* the next record of the category does not rotate.
C23_CounterResetOnFailure ==
    [][\A pkg \in Categories :
          RenameFails(pkg)
             => /\ \E line \in FormatLogMessages(runEntry) :
                      Counter(fileSizes', pkg) = Len(line) + 1
                /\ ~shouldRotate(fileSizes', pkg, config.MaxFileSize)]_vars

\* run takes the step in which getLogger opens the file of the package,
\* and os.OpenFile fails: LogDir does not exist, or the file does not exist
\* and cannot be created
OpenFails(pkg) ==
    /\ runPc = "writeOpen"
    /\ runPc' # runPc
    /\ runEntry.Package = pkg
    /\ pkg \notin DOMAIN loggers \/ shouldRotate(fileSizes, pkg, config.MaxFileSize)
    /\ ~dirOK \/ (~dirWritable /\ BaseName(config.LogDir, pkg) \notin DOMAIN fs)

\* C24: when the file of a category cannot be opened, one "failed to open
\* log file" error is reported, the line of the record is written to
\* standard output, the category keeps a logger that writes to standard
\* output only and run goes back to its select; every record run formats,
\* of whatever category, is written to standard output, and to the file of
\* its category when the category has one open.
C24_OpenFailure ==
    [][/\ \A pkg \in Categories :
             OpenFails(pkg)
                => /\ ReportedOnce(ErrOpenLogFile(BaseName(config.LogDir, pkg)))
                   /\ stdout' = Append(stdout, FormatHead(runEntry))
                   /\ UNCHANGED <<fs, inodes>>
                   /\ pkg \in DOMAIN loggers' /\ loggers'[pkg] = 0
                   /\ runPc' = "select"
       /\ (runPc \in {"writeOpen", "writeClosed"} /\ runPc' # runPc)
             => /\ stdout' = Append(stdout, FormatHead(runEntry))
                /\ runPc' = "select"
                /\ panic' = ""
       /\ \A pkg \in Categories :
             (/\ runPc = "writeOpen" /\ runPc' # runPc /\ runEntry.Package = pkg
              /\ pkg \in DOMAIN loggers /\ loggers[pkg] # 0
              /\ ~shouldRotate(fileSizes, pkg, config.MaxFileSize))
                => inodes' = [inodes EXCEPT ![loggers[pkg]]
                                 = Append(@, FormatHead(runEntry))]]_vars

\* the file of b could not be opened, two records of b are on standard
\* output and the file of a holds a line
C24_Witness ==
    /\ ErrOpenLogFile("logs/b.log") \in Reported(stderr, errorChan, handled)
    /\ Cardinality({i \in DOMAIN hEnqueued :
                       /\ hEnqueued[i].Package = PkgB
                       /\ FormatHead(hEnqueued[i]) \in Range(stdout)}) >= 2
    /\ FileLines(fs, inodes, "logs/a.log") # <<>>

\* C25: when LogDir could not be created, the constructor has reported one
\* "failed to create log directory" error: without a handler it is on
\* standard error; with a handler it is on the error channel until the
\* handleErrors goroutine passes it to the handler, which it has done when
\* it terminates.  The engine runs: before any call both goroutines are in
\* their select, and no file is ever created.
C25_DirectoryCreateFailed ==
    (~dirOK /\ config.LogDir # "")
        => LET err == ErrCreateLogDir(config.LogDir)
               count(q) == Cardinality({i \in DOMAIN q : q[i] = err})
           IN  /\ IF config.ErrorHandler
                  THEN /\ count(errorChan) + count(handled) = 1
                       /\ count(stderr) = 0
                       /\ errPc = "exited" => count(handled) = 1
                  ELSE count(stderr) = 1 /\ stderr[1] = err
               /\ (TotalCalls = 0 /\ ~closed)
                     => /\ runPc = "select" /\ panic = ""
                        /\ errPc = IF config.ErrorHandler THEN "select" ELSE "off"
               /\ fs = EmptyMap

\* LogDir could not be created, the handler has received the error and
\* run has written a record
C25_Witness ==
    /\ ~dirOK /\ config.ErrorHandler
    /\ handled = <<ErrCreateLogDir("logs")>>
    /\ stdout # <<>>

(***************************************************************************)
(* C26 to C29, checked under Spec.                                         *)
(***************************************************************************)
\* handleError(err) has returned: with a handler the error is on the error
\* channel when that had room and on standard error when it was full,
\* without a handler it is on standard error
Delivered(err) ==
    /\ panic' = panic
    /\ IF config.ErrorHandler /\ Len(errorChan) < ErrorChanSize
       THEN errorChan' = Append(errorChan, err) /\ stderr' = stderr
       ELSE stderr' = Append(stderr, err) /\ errorChan' = errorChan

\* C26: a call of handleError returns within the step that makes it, with
\* the error on the error channel (handler set, room on the channel) or on
\* standard error (no handler, or channel full); no step removes an error
\* from where it was reported except by passing it to the handler.
C26_ErrorReporting ==
    [][/\ \A p \in Producers :
             LogEntryDrop(p)
                => Delivered(ErrChannelFull(cur[p].Message)) /\ pc'[p] = "idle"
       /\ \A c \in Closers :
             CloseFiles(c)
                => /\ panic' = panic
                   /\ pc'[c] = "logChan"
                   /\ \/ UNCHANGED <<stderr, errorChan>>
                      \/ \E k \in DOMAIN files : Delivered(ErrCloseLogFile(k))
       /\ Reported(stderr, errorChan, handled)
             \subseteq Reported(stderr', errorChan', handled')]_vars

\* C27: the errors leave the error channel in the order they were placed
\* on it, each passed to the handler once; the handleErrors goroutine
\* terminates on an empty channel, and with a handler the error channel is
\* empty when Close returns.
C27_SinkDrains ==
    [][/\ handled' # handled
          => /\ errorChan # <<>>
             /\ handled' = Append(handled, Head(errorChan))
             /\ errorChan' = Tail(errorChan)
       /\ handled' = handled
          => \/ errorChan' = errorChan
             \/ \E err \in Range(errorChan') : errorChan' = Append(errorChan, err)
       /\ (errPc # "exited" /\ errPc' = "exited") => errorChan = <<>>
       /\ (config.ErrorHandler /\ TeardownDone') => errorChan' = <<>>]_vars

\* C28: when Close has returned, every "failed to close log file" error it
\* reported has been passed to the handler when one is configured, and is
\* on standard error otherwise.
C28_CloseFailureReported ==
    TeardownDone
       => \A pkg \in Categories :
             ErrCloseLogFile(pkg) \in Reported(stderr, errorChan, handled)
                => IF config.ErrorHandler
                   THEN ErrCloseLogFile(pkg) \in Range(handled)
                   ELSE ErrCloseLogFile(pkg) \in Range(stderr)

\* run writes the line of the entry to standard output and to the end of
\* the file of its category, and counts it
WrittenToBoth(entry) ==
    LET pkg == entry.Package
        lines == FileLines(fs', inodes', BaseName(config.LogDir, pkg))
        before == IF shouldRotate(fileSizes, pkg, config.MaxFileSize)
                  THEN 0 ELSE Counter(fileSizes, pkg)
    IN  \E line \in FormatLogMessages(entry) :
           /\ stdout' = Append(stdout, line)
           /\ lines # <<>> /\ lines[Len(lines)] = line
           /\ Counter(fileSizes', pkg) = before + Len(line) + 1

\* C29: every line run writes, after a receive in its select loop and in
\* the drain loop alike, goes to standard output and to the file of the
\* category (the directory being writable), and the byte counter of the
\* category grows by the length of the line plus one.
C29_DualSink ==
    [][/\ (runPc \in {"writeOpen", "writeClosed"} /\ runPc' # runPc)
             => WrittenToBoth(runEntry)
       /\ (/\ runPc = "drain" /\ Len(logChan') < Len(logChan)
           /\ ~Cancelled(Head(logChan)))
             => WrittenToBoth(Head(logChan))]_vars

(***************************************************************************)
(* C30, checked under Spec.                                                *)
(***************************************************************************)
\* the entry has the state logEntryPool.New gives it
Reset(entry) ==
    /\ entry.Package = <<>>
    /\ entry.Message = ""
    /\ ~entry.Context
    /\ DOMAIN entry.Fields = {}
    /\ entry.Level = DEBUG
    /\ entry.Timestamp = ""

\* C30: every entry in the pool, and so the entry getLogEntry returns, has
\* an empty package, an empty message, no context and no fields; the entry
\* a call fills carries the fields of that call alone, and a context only
\* when the call is LogWithContext.
C30_PoolReset ==
    [][/\ \A i \in DOMAIN pool' : Reset(pool'[i])
       /\ Reset(getLogEntry(pool'))
       /\ \A p \in Producers :
             (pc[p] = "idle" /\ pc'[p] = "logEntry")
                => /\ DOMAIN cur'[p].Fields \subseteq {"user"}
                   /\ DOMAIN cur'[p].Fields # {}
                         => (p = "p1" /\ cur'[p].Level = ERROR)
                   /\ cur'[p].Context => (p = "p2" /\ cur'[p].Level = INFO)
                   /\ Len(pool') = IF pool = <<>> THEN 0 ELSE Len(pool) - 1]_vars

\* the entry of a LogWithFields call was written and released, and the
\* next call of the producer has taken it from the pool
C30_Witness ==
    /\ \E i \in DOMAIN stdout :
          \E e \in Range(hEnqueued) :
             DOMAIN e.Fields # {} /\ stdout[i] \in FormatLogMessages(e)
    /\ ncalls["p1"] = 2
    /\ pc["p1"] = "logEntry"
    /\ pool = <<>>
    /\ DOMAIN cur["p1"].Fields = {}

(***************************************************************************)
(* SpecConfig: construction.  The constructor is called with a Config      *)
(* whose fields are valid, zero or negative; when it returns, one producer *)
(* logs through the engine it built.                                       *)
(***************************************************************************)
ConfigInputs ==
    [BufferSize : {-1, 0, QueueCap}, LogDir : {"logs"},
     TimestampFormat : {"", DefaultConfig.TimestampFormat}, MinLevel : {DEBUG},
     FileMode : {0, 384}, DirMode : {0, 448},
     MaxFileSize : {-1, 0, MaxFileSize}, MaxFiles : {-1, 0, MaxFiles},
     ErrorHandler : {FALSE}]

InitConfig == \E cfg \in ConfigInputs : NewChannelLoggerWithConfig(cfg, TRUE)

NextConfig ==
    \/ /\ TotalCalls < MaxConfigCalls
       /\ \E pkg \in Categories : Info("p1", pkg, Msg("p1"))
    \/ LogEntryStep("p1")
    \/ RunRecv
    \/ RunGetLogger
    \/ RunWrite

SpecConfig == InitConfig /\ [][NextConfig]_vars

NameAlphabet == {"a", "Z", "7", "_", "-", "/"}

ShortNames == UNION {[1..n -> NameAlphabet] : n \in 0..MaxNameLen}

LongNames ==
    {[i \in 1..n |-> IF i % 50 = 0 THEN c ELSE "a"] :
        n \in {MaxPackageNameLen, MaxPackageNameLen + 1, 150}, c \in {"a", "/"}}

NameInputs == ShortNames \cup LongNames

InitNames == NewChannelLoggerWithConfig(SmallConfig(DEBUG, FALSE), TRUE)

NextNames ==
    \/ /\ TotalCalls < MaxNameCalls
       /\ \E pkg \in IF hEnqueued = <<>> THEN NameInputs
                                        ELSE {hEnqueued[1].Package} :
             Info("p1", pkg, Msg("p1"))
    \/ LogEntryStep("p1")
    \/ RunRecv
    \/ RunGetLogger
    \/ RunWrite

SpecNames == InitNames /\ [][NextNames]_vars

\* C32: for every raw name the router has opened a file for, the sanitized
\* name is "default" when the raw name is empty and otherwise the raw name
\* cut to 100 characters with each character outside [A-Za-z0-9_-]
\* replaced by "_"; it is not empty, has allowed characters only, is its
\* own sanitized name, and names the file that was opened.
C32_Sanitize ==
    \A pkg \in DOMAIN files :
       LET s == sanitizePackageName(pkg)
           n == IF Len(pkg) > 100 THEN 100 ELSE Len(pkg)
           allowed == Range(LowerCase) \cup Range(UpperCase) \cup Digits
                         \cup {"_", "-"}
       IN  /\ pkg = <<>> => s = <<"d", "e", "f", "a", "u", "l", "t">>
           /\ pkg # <<>> =>
                 /\ Len(s) = n
                 /\ \A i \in 1..n : s[i] = IF pkg[i] \in allowed THEN pkg[i] ELSE "_"
           /\ s # <<>>
           /\ \A i \in DOMAIN s : s[i] \in allowed
           /\ sanitizePackageName(s) = s
           /\ (config.LogDir \o "/" \o Str(s) \o ".log") \in DOMAIN fs

\* a line was written to the file of a raw name of more than 100
\* characters, some of them disallowed
C32_Witness ==
    \E pkg \in DOMAIN files :
       /\ Len(pkg) > 100
       /\ \E i \in 1..100 : pkg[i] = "/"
       /\ LET name == BaseName(config.LogDir, pkg)
          IN  name \in DOMAIN fs /\ inodes[fs[name]] # <<>>

(***************************************************************************)
(* SpecParse: level strings.  Log and LogWithContext are called with the   *)
(* three level names in every mix of cases and with strings that name no   *)
(* level, under each minimum level; the message of a call spells the level *)
(* string it was made with.                                                *)
(***************************************************************************)
CaseVariants(word) ==
    {[i \in DOMAIN word |-> IF i \in up THEN ToUpperChar(word[i]) ELSE word[i]] :
        up \in SUBSET DOMAIN word}

Unrecognised ==
    {<<>>, <<"I", "N", "V", "A", "L", "I", "D">>, <<"w", "a", "r", "n">>,
     <<"d", "e", "b", "u">>, <<"I", "N", "F", "O", "S">>, <<"e">>}

LevelInputs ==
    CaseVariants(<<"d", "e", "b", "u", "g">>) \cup CaseVariants(<<"i", "n", "f", "o">>)
        \cup CaseVariants(<<"e", "r", "r", "o", "r">>) \cup Unrecognised

\* the message of the k-th call of p, made with the level string level
LevelMsg(p, k, level) == MsgOf(p, k) \o ":" \o Str(level)

InitParse == \E minimum \in Levels :
                 NewChannelLoggerWithConfig(SmallConfig(minimum, FALSE), TRUE)

NextParse ==
    \/ /\ TotalCalls < MaxParseCalls
       /\ \E level \in IF TotalCalls = 0 THEN LevelInputs ELSE {<<>>} :
             \/ Log("p1", PkgA, level, LevelMsg("p1", ncalls["p1"] + 1, level))
             \/ LogWithContext("p2", PkgA, level,
                               LevelMsg("p2", ncalls["p2"] + 1, level))
    \/ \E p \in Producers : LogEntryStep(p)
    \/ RunRecv
    \/ RunGetLogger
    \/ RunWrite

SpecParse == InitParse /\ [][NextParse]_vars

\* level spells word in some mix of upper and lower case
SpellsIgnoringCase(level, word) ==
    /\ Len(level) = Len(word)
    /\ \A i \in DOMAIN word :
          \E k \in DOMAIN LowerCase :
             word[i] = UpperCase[k] /\ level[i] \in {LowerCase[k], UpperCase[k]}

\* the level the specification gives a level string
LevelNamed(level) ==
    CASE SpellsIgnoringCase(level, <<"D", "E", "B", "U", "G">>) -> DEBUG
      [] SpellsIgnoringCase(level, <<"E", "R", "R", "O", "R">>) -> ERROR
      [] OTHER -> INFO

\* every call SpecParse can make: the producer, the number of the call,
\* its message and the level the specification gives its level string
LevelTable ==
    {<<c[1], c[2], LevelMsg(c[1], c[2], c[3]), LevelNamed(c[3])>> :
        c \in Producers \X (1..MaxParseCalls) \X LevelInputs}

\* the calls made so far, each with its message and the level wanted
LevelCalls ==
    {c \in LevelTable : c[2] <= ncalls[c[1]]}

\* C33: the entry of a Log or LogWithContext call carries DEBUG, INFO or
\* ERROR when its level string spells that name in any mix of cases and
\* INFO for every other string, the empty one included; it is enqueued
\* only when that level is not below the minimum, and the line written
\* for it is the line of that level.
C33_ParseLogLevel ==
    \A c \in LevelCalls :
       LET m == c[3]
           want == c[4]
       IN  /\ cur[c[1]].Message = m => cur[c[1]].Level = want
           /\ \A i \in DOMAIN hEnqueued :
                 hEnqueued[i].Message = m
                    => /\ hEnqueued[i].Level = want
                       /\ want >= minLevel
                       /\ \A j \in DOMAIN stdout :
                             stdout[j] \in FormatLogMessages(hEnqueued[i])
                                => stdout[j] = "[" \o Clock \o "] "
                                                  \o LevelString(want) \o ": " \o m

\* under the minimum INFO, a Log call and a LogWithContext call whose level
\* strings name no level were both written as INFO
C33_Witness ==
    /\ minLevel = INFO
    /\ \E level \in Unrecognised \ {<<>>} :
          ("[" \o Clock \o "] INFO: " \o LevelMsg("p1", 1, level)) \in Range(stdout)
    /\ ("[" \o Clock \o "] INFO: " \o LevelMsg("p2", 1, <<>>)) \in Range(stdout)

(***************************************************************************)
(* SpecRestart: the engine is built on a LogDir in which an earlier run    *)
(* left the base file of category "a" with up to MaxEarlierLines lines;    *)
(* one producer logs to two categories.                                     *)
(***************************************************************************)
\* the k-th line of the earlier run
EarlierLine(k) ==
    FormatHead([ZeroEntry EXCEPT !.Level = INFO, !.Message = MsgOf("p0", k),
                                 !.Timestamp = Clock])

InitRestart ==
    \E n \in 0..MaxEarlierLines :
       ConstructedOn(SmallConfig(DEBUG, FALSE), TRUE,
                     IF n = 0 THEN EmptyMap
                     ELSE Put(EmptyMap, BaseName("logs", PkgA), 1),
                     IF n = 0 THEN <<>> ELSE <<[k \in 1..n |-> EarlierLine(k)]>>)

NextRestart ==
    \/ /\ TotalCalls < MaxRestartCalls
       /\ \E pkg \in Categories : Info("p1", pkg, Msg("p1"))
    \/ LogEntryStep("p1")
    \/ RunRecv
    \/ RunGetLogger
    \/ RunWrite

SpecRestart == InitRestart /\ [][NextRestart]_vars

\* run writes a line for the package to the file its logger holds
AppendStep(pkg) ==
    /\ runPc = "writeOpen"
    /\ runPc' # runPc
    /\ runEntry.Package = pkg
    /\ pkg \in DOMAIN loggers'
    /\ loggers'[pkg] # 0

\* C34: when run appends a line to the file of a category, the byte counter
\* of the category was below MaxFileSize before the line was counted; and
\* every base file, its last line left out, is shorter than MaxFileSize.
C34_RotateBeforeWrite ==
    [][\A pkg \in Categories :
          /\ AppendStep(pkg)
                => \E line \in FormatLogMessages(runEntry) :
                      /\ stdout' = Append(stdout, line)
                      /\ fileSizes'[pkg] - (Len(line) + 1) < config.MaxFileSize
          /\ LET name == BaseName(config.LogDir, pkg)
             IN  (name \in DOMAIN fs' /\ inodes'[fs'[name]] # <<>>)
                    => LET lines == inodes'[fs'[name]]
                       IN  ByteSize(SubSeq(lines, 1, Len(lines) - 1))
                              < config.MaxFileSize]_vars

(***************************************************************************)
(* SpecAlias: one producer logs to three raw category names whose          *)
(* sanitized name is "a_".                                                 *)
(***************************************************************************)
AliasNames == {<<"a", "_">>, <<"a", "/">>, <<"a", " ">>}

InitAlias == NewChannelLoggerWithConfig(SmallConfig(DEBUG, FALSE), TRUE)

NextAlias ==
    \/ /\ TotalCalls < MaxAliasCalls
       /\ \E pkg \in AliasNames : Info("p1", pkg, Msg("p1"))
    \/ LogEntryStep("p1")
    \/ RunRecv
    \/ RunGetLogger
    \/ RunWrite

SpecAlias == InitAlias /\ [][NextAlias]_vars

\* the keys of the router's three maps
RouterKeys == DOMAIN loggers \cup DOMAIN files \cup DOMAIN fileSizes

\* C35: two keys of the router's maps with the same sanitized name are the
\* same key, and two open handles on the same file belong to the same key:
\* an output file has one entry, one open handle and one byte counter.
C35_OneEntryPerFile ==
    /\ \A x \in RouterKeys, y \in RouterKeys :
          sanitizePackageName(x) = sanitizePackageName(y) => x = y
    /\ \A x \in DOMAIN files, y \in DOMAIN files :
          (files[x].open /\ files[y].open /\ files[x].ino = files[y].ino) => x = y

(***************************************************************************)
(* The router lock.  The steps of run and Close that SpecLock takes one at *)
(* a time: cl.mu.Lock, the accesses made under it, cl.mu.Unlock.           *)
(***************************************************************************)
\* getLogger found cl.closed false: cl.mu.Lock()
RunLock ==
    /\ Running
    /\ runPc = "writeOpen"
    /\ mu = ""
    /\ mu' = "run"
    /\ runPc' = "lookup"
    /\ UNCHANGED <<config, hConfig, envVars, minLevel, closed, chanVars, routerVars,
                   outVars, pool, ctxDone, callVars, runEntry, errPc, panic,
                   histVars>>

\* the body of getLogger: the lookup, the rotation, the open
RunLookup ==
    /\ Running
    /\ runPc = "lookup"
    /\ \E got \in {getLogger(RS, runEntry.Package, config, FALSE, dirOK, dirWritable)} :
          LET es == handleErrorAll(ES, got.errs, config.ErrorHandler,
                                   errorChanClosed)
          IN  /\ SetErrors(es)
              /\ IF es.panic = ""
                 THEN SetRouter(got.rs) /\ runPc' = "unlock"
                 ELSE UNCHANGED <<routerVars, runPc>>
    /\ UNCHANGED <<config, hConfig, mu, envVars, minLevel, closed, logChan,
                   logChanClosed, errorChanClosed, done, wg, stdout, handled,
                   pool, ctxDone, callVars, runEntry, errPc, histVars>>

\* the deferred cl.mu.Unlock() of getLogger
RunUnlock ==
    /\ Running
    /\ runPc = "unlock"
    /\ mu' = ""
    /\ runPc' = "sizeOpen"
    /\ UNCHANGED <<config, hConfig, envVars, minLevel, closed, chanVars, routerVars,
                   outVars, pool, ctxDone, callVars, runEntry, errPc, panic,
                   histVars>>

\* a run that goes on to the byte counter without cl.mu
RunSizeNoLock ==
    /\ Running
    /\ runPc \in {"sizeOpen", "writeClosed"}
    /\ runPc' = IF runPc = "sizeOpen" THEN "addOpen" ELSE "addClosed"
    /\ UNCHANGED <<config, hConfig, mu, envVars, minLevel, closed, chanVars,
                   routerVars, outVars, pool, ctxDone, callVars, runEntry, errPc,
                   panic, histVars>>

\* getLogger returned, with the file logger or, cl.closed found true, with
\* the logger for standard output: cl.mu.Lock() before the byte counter
RunSizeLock ==
    /\ Running
    /\ runPc \in {"sizeOpen", "writeClosed"}
    /\ mu = ""
    /\ mu' = "run"
    /\ runPc' = IF runPc = "sizeOpen" THEN "addOpen" ELSE "addClosed"
    /\ UNCHANGED <<config, hConfig, envVars, minLevel, closed, chanVars, routerVars,
                   outVars, pool, ctxDone, callVars, runEntry, errPc, panic,
                   histVars>>

\* cl.fileSizes[entry.Package] += messageSize
RunSizeAdd ==
    /\ Running
    /\ runPc \in {"addOpen", "addClosed"}
    /\ \E formatted \in FormatLogMessages(runEntry) :
          fileSizes' = Put(fileSizes, runEntry.Package,
                           Counter(fileSizes, runEntry.Package) + Len(formatted) + 1)
    /\ runPc' = IF runPc = "addOpen" THEN "addedOpen" ELSE "addedClosed"
    /\ UNCHANGED <<config, hConfig, mu, envVars, minLevel, closed, chanVars, loggers,
                   files, fs, inodes, outVars, pool, ctxDone, callVars, runEntry,
                   errPc, panic, histVars>>

\* cl.mu.Unlock() after the byte counter
RunSizeUnlock ==
    /\ Running
    /\ runPc \in {"addedOpen", "addedClosed"}
    /\ mu' = ""
    /\ runPc' = IF runPc = "addedOpen" THEN "printOpen" ELSE "printClosed"
    /\ UNCHANGED <<config, hConfig, envVars, minLevel, closed, chanVars, routerVars,
                   outVars, pool, ctxDone, callVars, runEntry, errPc, panic,
                   histVars>>

\* logger.Println(formatted) and putLogEntry(entry)
RunPrintln ==
    /\ Running
    /\ runPc \in {"printOpen", "printClosed"}
    /\ \E formatted \in FormatLogMessages(runEntry) :
          LET logger == IF runPc = "printOpen" THEN loggers[runEntry.Package] ELSE 0
              out == Println(RS, stdout, logger, formatted)
          IN  /\ inodes' = out.rs.inodes
              /\ stdout' = out.stdout
    /\ pool' = putLogEntry(pool, runEntry)
    /\ runEntry' = ZeroEntry
    /\ runPc' = "select"
    /\ UNCHANGED <<config, hConfig, mu, envVars, minLevel, closed, chanVars, loggers,
                   files, fileSizes, fs, stderr, handled, ctxDone, callVars, errPc,
                   panic, histVars>>

\* wg.Wait() returned: cl.mu.Lock()
CloseLock(c) ==
    /\ Running
    /\ pc[c] = "files"
    /\ mu = ""
    /\ mu' = c
    /\ pc' = [pc EXCEPT ![c] = "locked"]
    /\ UNCHANGED <<config, hConfig, envVars, minLevel, closed, chanVars, routerVars,
                   outVars, pool, ctxDone, cur, ncalls, runVars, errPc, panic,
                   histVars>>

\* the loop over cl.files
CloseFilesLocked(c) == CloseFilesAt(c, "locked", "unlock")

\* cl.mu.Unlock()
CloseUnlock(c) ==
    /\ Running
    /\ pc[c] = "unlock"
    /\ mu' = ""
    /\ pc' = [pc EXCEPT ![c] = "logChan"]
    /\ UNCHANGED <<config, hConfig, envVars, minLevel, closed, chanVars, routerVars,
                   outVars, pool, ctxDone, cur, ncalls, runVars, errPc, panic,
                   histVars>>

runLocked ==
    \/ RunRecv
    \/ RunGetLogger
    \/ RunLock
    \/ RunLookup
    \/ RunUnlock
    \/ RunSizeLock
    \/ RunSizeAdd
    \/ RunSizeUnlock
    \/ RunPrintln
    \/ RunDone
    \/ RunDrain
    \/ RunExit

CloseLocked(c) ==
    \/ CloseCAS(c)
    \/ CloseSignal(c)
    \/ CloseWait(c)
    \/ CloseLock(c)
    \/ CloseFilesLocked(c)
    \/ CloseUnlock(c)
    \/ CloseLogChan(c)
    \/ CloseErrorChan(c)

(***************************************************************************)
(* SpecLock: one producer logs to two categories, rotating their files,    *)
(* while two goroutines call Close; run and Close take the router lock     *)
(* step by step.                                                           *)
(***************************************************************************)
InitLock == NewChannelLoggerWithConfig(SmallConfig(DEBUG, FALSE), TRUE)

NextLock ==
    \/ /\ TotalCalls < MaxLockCalls
       /\ \E pkg \in Categories : Info("p1", pkg, Msg("p1"))
    \/ LogEntryStep("p1")
    \/ \E c \in Closers : CloseLocked(c)
    \/ runLocked

SpecLock == InitLock /\ [][NextLock]_vars

\* C36: the steps that read or write cl.loggers, cl.files or cl.fileSizes
\* (the body of getLogger with its rotation, the addition to the byte
\* counter, the loop of Close) are taken by the goroutine that holds cl.mu,
\* which it still holds after the step; no other step, the drain loop
\* included, changes one of the three maps.
C36_RouterLock ==
    [][/\ (RunLookup \/ RunSizeAdd) => (mu = "run" /\ mu' = "run")
       /\ \A c \in Closers : CloseFilesLocked(c) => (mu = c /\ mu' = c)
       /\ <<loggers, files, fileSizes>>' # <<loggers, files, fileSizes>>
             => \/ RunLookup
                \/ RunSizeAdd
                \/ \E c \in Closers : CloseFilesLocked(c)]_vars

\* Close holds the lock after it closed the file of a category that run
\* opened, counted and rotated under the lock
C36_Witness ==
    /\ mu \in Closers
    /\ pc[mu] = "unlock"
    /\ \E pkg \in DOMAIN files :
          /\ ~files[pkg].open
          /\ fileSizes[pkg] > 0
          /\ BackupName(BaseName(config.LogDir, pkg), 1) \in DOMAIN fs

(***************************************************************************)
(* C37, checked under Spec.                                                *)
(***************************************************************************)
\* run and handleErrors have returned, or were never started
LoopsTerminated == runPc = "exited" /\ errPc \in {"off", "exited"}

\* every handle in cl.files is closed
HandlesClosed(fls) == \A k \in DOMAIN fls : ~fls[k].open

\* C37: the Close that tears the engine down closes the file handles only
\* when run and handleErrors have terminated, closes logChan only when the
\* handles are closed and errorChan only when logChan is closed; no line
\* is appended through a handle that Close has closed; and when that Close
\* has returned every handle in cl.files is closed.
C37_TeardownOrder ==
    [][/\ \A c \in Closers :
             CloseFiles(c) => /\ LoopsTerminated
                              /\ wg = 0
                              /\ ~logChanClosed
                              /\ ~errorChanClosed
       /\ (\E k \in DOMAIN files' : ~files'[k].open) => LoopsTerminated'
       /\ logChanClosed' => HandlesClosed(files')
       /\ errorChanClosed' => logChanClosed'
       /\ (~errorChanClosed /\ errorChanClosed') => logChanClosed
       /\ \A k \in DOMAIN files :
             ~files[k].open => inodes'[files[k].ino] = inodes[files[k].ino]
       /\ (\E c \in hWinners' : pc'[c] = "idle")
             => (HandlesClosed(files') /\ LoopsTerminated'
                    /\ logChanClosed' /\ errorChanClosed')]_vars

\* the Close that won has returned from an engine with an error handler;
\* the file of a category holds a line and its handle is closed
C37_Witness ==
    /\ \E c \in hWinners : pc[c] = "idle"
    /\ errPc = "exited"
    /\ \E k \in DOMAIN files : ~files[k].open /\ inodes[files[k].ino] # <<>>

(***************************************************************************)
(* C38: the life of an entry.  The message of a call is unique, so it      *)
(* names the entry the call took from the pool.                            *)
(***************************************************************************)
\* the places that hold the entry with a message: the producers' calls, the
\* queue, the run goroutine
HoldersOf(m, held, queue, taken) ==
    Cardinality({p \in Producers : held[p].Message = m})
        + Cardinality({i \in DOMAIN queue : queue[i].Message = m})
        + (IF taken.Message = m THEN 1 ELSE 0)

\* the entries taken from the pool and not yet released
InUse(held, queue, taken) ==
    ({held[p].Message : p \in Producers}
        \cup {queue[i].Message : i \in DOMAIN queue} \cup {taken.Message}) \ {""}

\* the entries that entered the queue
EnqueuedMsgs == {hEnqueued[i].Message : i \in DOMAIN hEnqueued}

\* C38: an entry in use is held in one place only, by the producer until it
\* is enqueued and by the queue or run afterwards; the pool grows by one
\* entry exactly in the steps in which an entry leaves that place, which a
\* producer takes for an entry that was never enqueued and run takes for an
\* enqueued entry that it wrote or dropped for its context; and no entry is
\* left in the queue when run has returned, so that each entry is released
\* once.
C38_RecordLifecycle ==
    [][LET before == InUse(cur, logChan, runEntry)
           after == InUse(cur', logChan', runEntry')
           gone == before \ after
       IN  /\ \A m \in after : HoldersOf(m, cur', logChan', runEntry') = 1
           /\ Cardinality(gone) <= 1
           /\ Len(pool') = Len(pool) + 1 <=> gone # {}
           /\ Len(pool') <= Len(pool) + 1
           /\ \A m \in gone :
                 IF m \in EnqueuedMsgs
                 THEN /\ \A p \in Producers : cur[p].Message # m
                      /\ \/ stdout' # stdout
                         \/ \E x \in hDropped' : x[1] = m
                 ELSE /\ \E p \in Producers : cur[p].Message = m /\ pc'[p] = "idle"
                      /\ stdout' = stdout
           /\ runPc' = "exited" => logChan' = <<>>]_vars

(***************************************************************************)
(* C39, checked under Spec.                                                *)
(***************************************************************************)
\* a call of Close returns: it lost the CAS, or it closed errorChan
CloseReturns(c) == (closed /\ CloseCAS(c)) \/ CloseErrorChan(c)

\* C39: in the step in which a call of Close returns, whether it won the
\* CAS or found the flag set, run has returned, the queue is empty and
\* every handle in cl.files is closed.
C39_AnyCloseReturns ==
    [][\A c \in Closers :
          CloseReturns(c) => /\ runPc' = "exited"
                             /\ logChan' = <<>>
                             /\ HandlesClosed(files')]_vars

====
